---- MODULE Spec2Model ----
(***************************************************************************)
(* Model of package re of mygrep-go (latest revision, the file with        *)
(* groups, alternation and anchors): the recursive-descent parser, the     *)
(* token-to-NFA compiler and the backtracking matcher driven by Match,      *)
(* and the callers of Match: the command cmd/mygrep, the test loop and two *)
(* goroutines that call Match at the same time.                            *)
(*                                                                         *)
(* Strings are sequences of code points.  The model covers ASCII input,    *)
(* so every rune is one byte wide and a byte offset is a rune offset.      *)
(* Positions are 0-based as in the source: rune i of s is s[i+1].          *)
(***************************************************************************)
EXTENDS Integers, Sequences, FiniteSets, TLC

\* The call of Match that is running: its arguments, its locals, its place.
VARIABLES pattern, line, pc, p, nfa, src, off, stack, result, invoked

\* The caller of Match: cli.run, the loop of TestMatch, or the scheduler of two
\* goroutines with the locals of the goroutine that is not running.
VARIABLES cli, testing, sched

callers == <<cli, testing, sched>>

vars == <<pattern, line, pc, p, nfa, src, off, stack, result, invoked,
          cli, testing, sched>>

(***************************************************************************)
(* Runes the source names.                                                 *)
(***************************************************************************)
EOF == -1
BOS == 2
EOS == 3
RuneError == 65533
Newline == 10
LParen == 40
RParen == 41
Pipe == 124
LBracket == 91
RBracket == 93
Caret == 94
Hyphen == 45
PlusSign == 43
Asterisk == 42
Question == 63
Dot == 46
Dollar == 36
Backslash == 92
LowerD == 100
LowerW == 119
Underscore == 95
LowerA == 97
LowerZ == 122
UpperA == 65
UpperZ == 90
Digit0 == 48
Digit9 == 57
LowerB == 98
LowerC == 99

\* A rune the Go library does not classify as printable: horizontal tab.
CtrlChars == {9}
Tab == CHOOSE c \in CtrlChars : TRUE

\* unicode.IsPrint restricted to ASCII and to utf8.RuneError (U+FFFD, category
\* So, hence printable), the rune DecodeRuneInString returns for "".
IsPrint(r) == (r >= 32 /\ r <= 126) \/ r = RuneError

\* utf8.DecodeRuneInString(s[pos:]): the rune and its width.
DecodeRune(s, pos) ==
    IF pos >= Len(s) THEN [r |-> RuneError, w |-> 0]
                     ELSE [r |-> s[pos + 1], w |-> 1]

(***************************************************************************)
(* Errors.  nil is NoErr; an error is its message and the runes formatted  *)
(* into it.                                                                *)
(***************************************************************************)
NoErr == [msg |-> "", args |-> <<>>]
Err(m) == [msg |-> m, args |-> <<>>]
ErrF(m, a) == [msg |-> m, args |-> a]

(***************************************************************************)
(* Tokens.                                                                 *)
(***************************************************************************)
LiteralToken(c) == [type |-> "literal", char |-> c]
DigitToken == [type |-> "digit"]
WordToken == [type |-> "word"]
PositiveSetToken(items) == [type |-> "positiveSet", setItems |-> items]
NegativeSetToken(items) == [type |-> "negativeSet", setItems |-> items]
BeginningOfStringToken == [type |-> "beginningOfString"]
EndOfStringToken == [type |-> "endOfString"]
PlusToken(t) == [type |-> "plus", payload |-> t]
StarToken(t) == [type |-> "star", payload |-> t]
OptionalToken(t) == [type |-> "optional", payload |-> t]
WildcardToken == [type |-> "wildcard"]
GroupToken(branches) == [type |-> "group", payload |-> branches]

(***************************************************************************)
(* The parser.  A parser value is [pos, tokens, done] plus the outcome of  *)
(* the last call: err (the returned error) and panic (a Go run-time panic  *)
(* raised inside it).                                                      *)
(***************************************************************************)
NewParser(pos, tokens) ==
    [pos |-> pos, tokens |-> tokens, done |-> FALSE, err |-> NoErr, panic |-> FALSE]

Failed(q) == q.err # NoErr \/ q.panic

Peek(re, pos) == IF pos >= Len(re) THEN EOF ELSE re[pos + 1]

\* The position after p.next().
Advance(re, pos) == IF pos >= Len(re) THEN pos ELSE pos + 1

ContainsRune(re, pos, r) == \E i \in (pos + 1)..Len(re) : re[i] = r

ButLast(s) == SubSeq(s, 1, Len(s) - 1)

RangeItems(lo, hi) == [i \in 1..(hi - lo + 1) |-> lo + i - 1]

ParseLiteral(re, q) ==
    LET r == Peek(re, q.pos) IN
    IF r = EOF THEN [q EXCEPT !.err = Err("unexpected EOF")]
    ELSE [q EXCEPT !.pos = Advance(re, q.pos),
                   !.tokens = Append(q.tokens, LiteralToken(r))]

\* A slip: a backslash before any other rune makes that rune a literal.
ParseMetaChar_EscapesAny(re, q) ==
    LET first == Peek(re, q.pos)
        pos1 == Advance(re, q.pos)
        nextChar == Peek(re, pos1)
        pos2 == Advance(re, pos1)
    IN  IF first = EOF
        THEN [q EXCEPT !.err = Err("unexpected EOF while parsing meta character")]
        ELSE IF nextChar = LowerD
        THEN [q EXCEPT !.pos = pos2, !.tokens = Append(q.tokens, DigitToken)]
        ELSE IF nextChar = LowerW
        THEN [q EXCEPT !.pos = pos2, !.tokens = Append(q.tokens, WordToken)]
        ELSE IF nextChar = EOF
        THEN [q EXCEPT !.pos = pos2,
                       !.err = ErrF("unsupported meta character", <<nextChar>>)]
        ELSE [q EXCEPT !.pos = pos2,
                       !.tokens = Append(q.tokens, LiteralToken(nextChar))]

ParseMetaChar(re, q) ==
    LET first == Peek(re, q.pos)
        pos1 == Advance(re, q.pos)
        nextChar == Peek(re, pos1)
        pos2 == Advance(re, pos1)
    IN  IF first = EOF
        THEN [q EXCEPT !.err = Err("unexpected EOF while parsing meta character")]
        ELSE IF nextChar = LowerD
        THEN [q EXCEPT !.pos = pos2, !.tokens = Append(q.tokens, DigitToken)]
        ELSE IF nextChar = LowerW
        THEN [q EXCEPT !.pos = pos2, !.tokens = Append(q.tokens, WordToken)]
        ELSE IF nextChar = Backslash
        THEN [q EXCEPT !.pos = pos2,
                       !.tokens = Append(q.tokens, LiteralToken(Backslash))]
        ELSE [q EXCEPT !.pos = pos2,
                       !.err = ErrF("unsupported meta character", <<nextChar>>)]

\* A slip: the loop of the sets without the check of the order of a range's
\* ends.
RECURSIVE SetItemsLoop_NoRangeCheck(_, _, _, _, _)
SetItemsLoop_NoRangeCheck(re, pos, prev, items, kind) ==
    LET currentChar == Peek(re, pos)
        pos1 == Advance(re, pos)
        rangeEnd == Peek(re, pos1)
        pos2 == Advance(re, pos1)
    IN  IF currentChar = RBracket
        THEN [pos |-> pos1, items |-> items, err |-> NoErr]
        ELSE IF currentChar = EOF
        THEN [pos |-> pos1, items |-> items,
              err |-> ErrF("unexpected EOF while parsing set", <<kind>>)]
        ELSE IF currentChar = Hyphen /\ prev # 0
        THEN IF rangeEnd = EOF
             THEN [pos |-> pos2, items |-> items,
                   err |-> ErrF("unexpected EOF while parsing range in set", <<kind>>)]
             ELSE IF rangeEnd = RBracket
             THEN [pos |-> pos2, items |-> items \o <<prev, Hyphen>>, err |-> NoErr]
             ELSE SetItemsLoop_NoRangeCheck(re, pos2, 0,
                                            items \o RangeItems(prev, rangeEnd), kind)
        ELSE SetItemsLoop_NoRangeCheck(re, pos1, currentChar,
                                       Append(items, currentChar), kind)

\* The loop shared, line for line, by parsePositiveSet and parseNegativeSet:
\* from position pos with previousChar prev and the items read so far.
RECURSIVE SetItemsLoop(_, _, _, _, _)
SetItemsLoop(re, pos, prev, items, kind) ==
    LET currentChar == Peek(re, pos)
        pos1 == Advance(re, pos)
        rangeEnd == Peek(re, pos1)
        pos2 == Advance(re, pos1)
    IN  IF currentChar = RBracket
        THEN [pos |-> pos1, items |-> items, err |-> NoErr]
        ELSE IF currentChar = EOF
        THEN [pos |-> pos1, items |-> items,
              err |-> ErrF("unexpected EOF while parsing set", <<kind>>)]
        ELSE IF currentChar = Hyphen /\ prev # 0
        THEN IF rangeEnd = EOF
             THEN [pos |-> pos2, items |-> items,
                   err |-> ErrF("unexpected EOF while parsing range in set", <<kind>>)]
             ELSE IF rangeEnd = RBracket
             THEN [pos |-> pos2, items |-> items \o <<prev, Hyphen>>, err |-> NoErr]
             ELSE IF prev > rangeEnd
             THEN [pos |-> pos2, items |-> items,
                   err |-> ErrF("invalid range", <<prev, rangeEnd>>)]
             ELSE SetItemsLoop(re, pos2, 0, items \o RangeItems(prev, rangeEnd), kind)
        ELSE SetItemsLoop(re, pos1, currentChar, Append(items, currentChar), kind)

\* A slip: parsePositiveSet without the check for an empty set.
ParsePositiveSet_AllowsEmpty(re, q) ==
    LET pos1 == Advance(re, q.pos)
        r == SetItemsLoop(re, pos1, 0, <<>>, LBracket)
    IN  IF Peek(re, q.pos) # LBracket
        THEN [q EXCEPT !.pos = pos1,
                       !.err = Err("expected '[' at the beginning of positive set")]
        ELSE IF ~ContainsRune(re, pos1, RBracket)
        THEN [q EXCEPT !.pos = pos1, !.err = Err("unclosed '[' in positive set")]
        ELSE IF r.err # NoErr
        THEN [q EXCEPT !.pos = r.pos, !.err = r.err]
        ELSE [q EXCEPT !.pos = r.pos,
                       !.tokens = Append(q.tokens, PositiveSetToken(r.items))]

ParsePositiveSet(re, q) ==
    LET pos1 == Advance(re, q.pos)
        r == SetItemsLoop(re, pos1, 0, <<>>, LBracket)
    IN  IF Peek(re, q.pos) # LBracket
        THEN [q EXCEPT !.pos = pos1,
                       !.err = Err("expected '[' at the beginning of positive set")]
        ELSE IF ~ContainsRune(re, pos1, RBracket)
        THEN [q EXCEPT !.pos = pos1, !.err = Err("unclosed '[' in positive set")]
        ELSE IF r.err # NoErr
        THEN [q EXCEPT !.pos = r.pos, !.err = r.err]
        ELSE IF Len(r.items) = 0
        THEN [q EXCEPT !.pos = r.pos, !.err = Err("empty positive set")]
        ELSE [q EXCEPT !.pos = r.pos,
                       !.tokens = Append(q.tokens, PositiveSetToken(r.items))]

ParseNegativeSet(re, q) ==
    LET pos1 == Advance(re, q.pos)
        pos2 == Advance(re, pos1)
        r == SetItemsLoop(re, pos2, 0, <<>>, Caret)
    IN  IF Peek(re, q.pos) # LBracket
        THEN [q EXCEPT !.pos = pos1,
                       !.err = Err("expected '[^' at the beginning of negative set")]
        ELSE IF Peek(re, pos1) # Caret
        THEN [q EXCEPT !.pos = pos2,
                       !.err = Err("expected '[^' at the beginning of negative set")]
        ELSE IF ~ContainsRune(re, pos2, RBracket)
        THEN [q EXCEPT !.pos = pos2, !.err = Err("unclosed '[' in negative set")]
        ELSE IF r.err # NoErr
        THEN [q EXCEPT !.pos = r.pos, !.err = r.err]
        ELSE IF Len(r.items) = 0
        THEN [q EXCEPT !.pos = r.pos, !.err = Err("empty negative set")]
        ELSE [q EXCEPT !.pos = r.pos,
                       !.tokens = Append(q.tokens, NegativeSetToken(r.items))]

ParseBeginningOfString(re, q) ==
    [q EXCEPT !.pos = Advance(re, q.pos),
              !.tokens = Append(q.tokens, BeginningOfStringToken)]

ParseEndOfString(re, q) ==
    [q EXCEPT !.pos = Advance(re, q.pos),
              !.tokens = Append(q.tokens, EndOfStringToken)]

\* A slip: the wrapper is appended and the token it holds stays.
ParsePlus_KeepsLast(re, q) ==
    IF Len(q.tokens) = 0
    THEN [q EXCEPT !.pos = Advance(re, q.pos),
                   !.err = Err("no character to apply '+' to")]
    ELSE [q EXCEPT !.pos = Advance(re, q.pos),
                   !.tokens = Append(q.tokens, PlusToken(q.tokens[Len(q.tokens)]))]

ParsePlus(re, q) ==
    IF Len(q.tokens) = 0
    THEN [q EXCEPT !.pos = Advance(re, q.pos),
                   !.err = Err("no character to apply '+' to")]
    ELSE [q EXCEPT !.pos = Advance(re, q.pos),
                   !.tokens = Append(ButLast(q.tokens),
                                     PlusToken(q.tokens[Len(q.tokens)]))]

ParseStar(re, q) ==
    IF Len(q.tokens) = 0
    THEN [q EXCEPT !.pos = Advance(re, q.pos),
                   !.err = Err("no character to apply '*' to")]
    ELSE [q EXCEPT !.pos = Advance(re, q.pos),
                   !.tokens = Append(ButLast(q.tokens),
                                     StarToken(q.tokens[Len(q.tokens)]))]

ParseOptional(re, q) ==
    IF Len(q.tokens) = 0
    THEN [q EXCEPT !.pos = Advance(re, q.pos),
                   !.err = Err("no character to apply '?' to")]
    ELSE [q EXCEPT !.pos = Advance(re, q.pos),
                   !.tokens = Append(ButLast(q.tokens),
                                     OptionalToken(q.tokens[Len(q.tokens)]))]

ParseWildcard(re, q) ==
    [q EXCEPT !.pos = Advance(re, q.pos),
              !.tokens = Append(q.tokens, WildcardToken)]

\* p.tokens[0] of an empty slice is a run-time panic (index out of range).
ParseOr(re, q) ==
    IF Len(q.tokens) = 0
    THEN [q EXCEPT !.pos = Advance(re, q.pos), !.panic = TRUE]
    ELSE IF q.tokens[1].type # "group"
    THEN [q EXCEPT !.pos = Advance(re, q.pos),
                   !.err = Err("expected group before '|'")]
    ELSE [q EXCEPT !.pos = Advance(re, q.pos),
                   !.tokens = <<GroupToken(Append(q.tokens[1].payload,
                                                  Tail(q.tokens)))>>]

ParseClosingGroup(re, q) ==
    IF Len(q.tokens) = 0
    THEN [q EXCEPT !.pos = Advance(re, q.pos), !.panic = TRUE]
    ELSE IF q.tokens[1].type # "group"
    THEN [q EXCEPT !.pos = Advance(re, q.pos),
                   !.err = Err("expected group before ')'")]
    ELSE [q EXCEPT !.pos = Advance(re, q.pos),
                   !.tokens = <<GroupToken(Append(q.tokens[1].payload,
                                                  Tail(q.tokens)))>>,
                   !.done = TRUE]

RECURSIVE Parse(_, _)
RECURSIVE ParseRe(_, _)
RECURSIVE ParseGroup(_, _)

\* parser.parse: the loop over parseRe.
Parse(re, q) ==
    IF q.pos < Len(re) /\ ~q.done
    THEN LET q1 == ParseRe(re, q) IN IF Failed(q1) THEN q1 ELSE Parse(re, q1)
    ELSE q

\* A slip: the parent goes on right after "(" and not where the child stopped.
ParseGroup_KeepsPos(re, q) ==
    LET groupParser == Parse(re, NewParser(Advance(re, q.pos), <<GroupToken(<<>>)>>))
    IN  IF Failed(groupParser)
        THEN [q EXCEPT !.pos = Advance(re, q.pos),
                       !.err = groupParser.err, !.panic = groupParser.panic]
        ELSE [q EXCEPT !.pos = Advance(re, q.pos),
                       !.tokens = q.tokens \o groupParser.tokens]

ParseGroup(re, q) ==
    LET groupParser == Parse(re, NewParser(Advance(re, q.pos), <<GroupToken(<<>>)>>))
    IN  IF Failed(groupParser)
        THEN [q EXCEPT !.pos = Advance(re, q.pos),
                       !.err = groupParser.err, !.panic = groupParser.panic]
        ELSE [q EXCEPT !.pos = groupParser.pos,
                       !.tokens = q.tokens \o groupParser.tokens]

ParseRe(re, q) ==
    LET nextRune == Peek(re, q.pos)
        nextNextRune == DecodeRune(re, q.pos + 1).r
    IN  CASE nextRune = EOF -> q
          [] nextRune = LParen -> ParseGroup(re, q)
          [] nextRune = RParen -> ParseClosingGroup(re, q)
          [] nextRune = Pipe -> ParseOr(re, q)
          [] nextRune = LBracket ->
                IF nextNextRune = Caret THEN ParseNegativeSet(re, q)
                                        ELSE ParsePositiveSet(re, q)
          [] nextRune = PlusSign -> ParsePlus(re, q)
          [] nextRune = Asterisk -> ParseStar(re, q)
          [] nextRune = Question -> ParseOptional(re, q)
          [] nextRune = Dot -> ParseWildcard(re, q)
          [] nextRune = Caret -> ParseBeginningOfString(re, q)
          [] nextRune = Dollar -> ParseEndOfString(re, q)
          [] nextRune = Backslash -> ParseMetaChar(re, q)
          [] OTHER -> ParseLiteral(re, q)

(***************************************************************************)
(* The automaton.  States live in an arena (a sequence); a *state is its   *)
(* index, nil is 0.  edges and control are the maps of the state; of a     *)
(* []*state value only element 0 is ever read, so a map entry is one index.*)
(***************************************************************************)
NoEdges == [r \in {} |-> 0]
EdgesTo(runes, target) == [r \in runes |-> target]
Lookup(f, r) == IF r \in DOMAIN f THEN f[r] ELSE 0

State(edges, control, anyChar, isFinal) ==
    [edges |-> edges, control |-> control, anyChar |-> anyChar,
     epsilon |-> <<>>, isFinal |-> isFinal]

Range(s) == {s[i] : i \in DOMAIN s}

\* A fragment: the arena after building it, its start and end, and whether
\* building it raised a nil-pointer panic.
Frag(arena, start, end) == [arena |-> arena, start |-> start, end |-> end, panic |-> FALSE]
NilFrag(arena) == [arena |-> arena, start |-> 0, end |-> 0, panic |-> FALSE]
PanicFrag(arena) == [arena |-> arena, start |-> 0, end |-> 0, panic |-> TRUE]

\* start --runes--> end, the shape of literal, digit, word and positive set.
EdgeFrag(arena, runes) ==
    LET n == Len(arena) IN
    Frag(arena \o <<State(EdgesTo(runes, n + 2), NoEdges, 0, FALSE),
                    State(NoEdges, NoEdges, 0, TRUE)>>, n + 1, n + 2)

LiteralToNfa(t, arena) == EdgeFrag(arena, {t.char})

DigitToNfa(arena) == EdgeFrag(arena, Digit0..Digit9)

\* A slip: the underscore left out of the word class.
WordToNfa_NoUnderscore(arena) ==
    EdgeFrag(arena, (LowerA..LowerZ) \cup (UpperA..UpperZ) \cup (Digit0..Digit9))

WordToNfa(arena) ==
    EdgeFrag(arena, (LowerA..LowerZ) \cup (UpperA..UpperZ) \cup (Digit0..Digit9)
                      \cup {Underscore})

PositiveSetToNfa(t, arena) == EdgeFrag(arena, Range(t.setItems))

\* A slip: the excluded runes lead to the final state, not to the dead end.
NegativeSetToNfa_ExcludedReachEnd(t, arena) ==
    LET n == Len(arena) IN
    Frag(arena \o <<[State(EdgesTo(Range(t.setItems), n + 2), NoEdges, 0, FALSE)
                        EXCEPT !.anyChar = n + 2],
                    State(NoEdges, NoEdges, 0, TRUE),
                    State(NoEdges, NoEdges, 0, FALSE)>>, n + 1, n + 2)

NegativeSetToNfa(t, arena) ==
    LET n == Len(arena) IN
    Frag(arena \o <<[State(EdgesTo(Range(t.setItems), n + 3), NoEdges, 0, FALSE)
                        EXCEPT !.anyChar = n + 2],
                    State(NoEdges, NoEdges, 0, TRUE),
                    State(NoEdges, NoEdges, 0, FALSE)>>, n + 1, n + 2)

ControlFrag(arena, sentinel) ==
    LET n == Len(arena) IN
    Frag(arena \o <<State(NoEdges, EdgesTo({sentinel}, n + 2), 0, FALSE),
                    State(NoEdges, NoEdges, 0, TRUE)>>, n + 1, n + 2)

\* A slip: the end anchor keyed to the begin sentinel.
EndOfStringToNfa_KeyedToBOS(arena) == ControlFrag(arena, BOS)

BeginningOfStringToNfa(arena) == ControlFrag(arena, BOS)

EndOfStringToNfa(arena) == ControlFrag(arena, EOS)

WildcardToNfa(arena) ==
    LET n == Len(arena) IN
    Frag(arena \o <<[State(NoEdges, NoEdges, 0, FALSE) EXCEPT !.anyChar = n + 2],
                    State(NoEdges, NoEdges, 0, TRUE)>>, n + 1, n + 2)

\* from.epsilon = append(from.epsilon, to)
AddEpsilon(arena, from, to) ==
    [arena EXCEPT ![from].epsilon = Append(@, to)]

\* A slip: plus without its back edge.
PlusToNfa_NoBackEdge(f) == f

\* A slip: optional without its skip edge.
OptionalToNfa_NoSkipEdge(f) == f

\* The quantifiers, applied to the fragment f of their payload.
PlusToNfa(f) == [f EXCEPT !.arena = AddEpsilon(f.arena, f.end, f.start)]

StarToNfa(f) ==
    [f EXCEPT !.arena = AddEpsilon(AddEpsilon(f.arena, f.end, f.start), f.start, f.end)]

OptionalToNfa(f) == [f EXCEPT !.arena = AddEpsilon(f.arena, f.start, f.end)]

\* A slip: the exit of the automaton so far keeps its terminal flag.
Concat_KeepsFinal(cur, nextNfa) ==
    IF cur.start = 0
    THEN nextNfa
    ELSE [arena |-> AddEpsilon(nextNfa.arena, cur.end, nextNfa.start),
          start |-> cur.start, end |-> nextNfa.end, panic |-> FALSE]

\* One step of the concatenation loop of buildNfa (and of the identical loop
\* in groupToken.toNfa): cur is the automaton so far (nil: start = 0).
Concat(cur, nextNfa) ==
    IF cur.start = 0
    THEN nextNfa
    ELSE [arena |-> [AddEpsilon(nextNfa.arena, cur.end, nextNfa.start)
                        EXCEPT ![cur.end].isFinal = FALSE],
          start |-> cur.start, end |-> nextNfa.end, panic |-> FALSE]

\* The end of one branch of a group: link it between the group's start and
\* end.  A branch with no token leaves nfa nil, and nfa.start panics.
LinkBranch(f, gstart, gend) ==
    IF f.start = 0
    THEN PanicFrag(f.arena)
    ELSE Frag([AddEpsilon(AddEpsilon(f.arena, gstart, f.start), f.end, gend)
                  EXCEPT ![f.end].isFinal = FALSE], gstart, gend)

RECURSIVE ToNfa(_, _)
RECURSIVE SeqToNfa(_, _, _)
RECURSIVE BranchesToNfa(_, _, _, _, _)

\* token.toNfa(), allocating in arena.
ToNfa(t, arena) ==
    CASE t.type = "literal" -> LiteralToNfa(t, arena)
      [] t.type = "digit" -> DigitToNfa(arena)
      [] t.type = "word" -> WordToNfa(arena)
      [] t.type = "positiveSet" -> PositiveSetToNfa(t, arena)
      [] t.type = "negativeSet" -> NegativeSetToNfa(t, arena)
      [] t.type = "beginningOfString" -> BeginningOfStringToNfa(arena)
      [] t.type = "endOfString" -> EndOfStringToNfa(arena)
      [] t.type = "wildcard" -> WildcardToNfa(arena)
      [] t.type = "plus" ->
            LET f == ToNfa(t.payload, arena) IN IF f.panic THEN f ELSE PlusToNfa(f)
      [] t.type = "star" ->
            LET f == ToNfa(t.payload, arena) IN IF f.panic THEN f ELSE StarToNfa(f)
      [] t.type = "optional" ->
            LET f == ToNfa(t.payload, arena) IN IF f.panic THEN f ELSE OptionalToNfa(f)
      [] t.type = "group" ->
            LET n == Len(arena) IN
            BranchesToNfa(t.payload, 1,
                          arena \o <<State(NoEdges, NoEdges, 0, FALSE),
                                     State(NoEdges, NoEdges, 0, TRUE)>>,
                          n + 1, n + 2)

\* The loop over tokens from index i on, cur being the automaton so far.
SeqToNfa(tokens, i, cur) ==
    IF i > Len(tokens) \/ cur.panic
    THEN cur
    ELSE LET nextNfa == ToNfa(tokens[i], cur.arena) IN
         IF nextNfa.panic THEN nextNfa
                          ELSE SeqToNfa(tokens, i + 1, Concat(cur, nextNfa))

\* groupToken.toNfa: the loop over the branches from index i on.
BranchesToNfa(branches, i, arena, gstart, gend) ==
    IF i > Len(branches)
    THEN Frag(arena, gstart, gend)
    ELSE LET f == SeqToNfa(branches[i], 1, NilFrag(arena))
             g == LinkBranch(f, gstart, gend)
         IN  IF f.panic THEN f
             ELSE IF g.panic THEN g
             ELSE BranchesToNfa(branches, i + 1, g.arena, gstart, gend)

BuildNfa(tokens) == SeqToNfa(tokens, 1, NilFrag(<<>>))

NoNfa == NilFrag(<<>>)

\* stringSource: BOS, the input with every newline replaced by EOS BOS, EOS.
RECURSIVE ReplaceNewlines_BOSOnly(_)
RECURSIVE ReplaceNewlines(_)
ReplaceNewlines_BOSOnly(s) ==
    IF s = <<>> THEN <<>>
    ELSE (IF Head(s) = Newline THEN <<BOS>> ELSE <<Head(s)>>)
         \o ReplaceNewlines_BOSOnly(Tail(s))

ReplaceNewlines(s) ==
    IF s = <<>> THEN <<>>
    ELSE (IF Head(s) = Newline THEN <<EOS, BOS>> ELSE <<Head(s)>>)
         \o ReplaceNewlines(Tail(s))

StringSource(input) == <<BOS>> \o ReplaceNewlines(input) \o <<EOS>>

(***************************************************************************)
(* The matcher.  nfa.matches runs the closure checkMatch; its call stack   *)
(* is the variable stack, the innermost call last.  A frame is the state   *)
(* and the input position of the call and where the call stands: k = 0     *)
(* before the consuming transition is tried, k >= 1 when epsilon edge k is *)
(* the next alternative.                                                   *)
(***************************************************************************)
Frame(st, pos) == [st |-> st, pos |-> pos, k |-> 0]

\* A slip: the any-character edge tried before the character edge.
ConsumeTarget_AnyCharFirst(s, r) ==
    IF IsPrint(r)
    THEN IF s.anyChar # 0 THEN s.anyChar ELSE Lookup(s.edges, r)
    ELSE Lookup(s.control, r)

\* A slip: the any-character edge taken for any rune, printable or not.
ConsumeTarget_AnyCharForAll(s, r) ==
    IF Lookup(s.edges, r) # 0 THEN Lookup(s.edges, r)
    ELSE IF s.anyChar # 0 THEN s.anyChar
    ELSE Lookup(s.control, r)

\* The state the consuming transition for rune r leads to, 0 if there is none:
\* a printable rune takes its edge, else the any-character edge; any other
\* rune takes its control edge.
ConsumeTarget(s, r) ==
    IF IsPrint(r)
    THEN IF Lookup(s.edges, r) # 0 THEN Lookup(s.edges, r) ELSE s.anyChar
    ELSE Lookup(s.control, r)

Top == stack[Len(stack)]
TopState == nfa.arena[Top.st]

\* stack with the innermost frame's k replaced.
SetK(k) == [stack EXCEPT ![Len(stack)].k = k]

\* What one call of checkMatch(st, s[pos:]) comes to, with the calls that are
\* still active in act: "true", "false", or "diverges" when it leads to a call
\* with the arguments of an active one, which then recurs without end.
RECURSIVE CheckMatchResult(_, _, _, _, _)
RECURSIVE EpsilonResult(_, _, _, _, _, _)
CheckMatchResult(f, s, st, pos, act) ==
    LET state == f.arena[st]
        d == DecodeRune(s, pos)
        t == ConsumeTarget(state, d.r)
        inner == act \cup {<<st, pos>>}
        consumed == IF t # 0 THEN CheckMatchResult(f, s, t, pos + d.w, inner)
                             ELSE "false"
    IN  IF <<st, pos>> \in act THEN "diverges"
        ELSE IF state.isFinal THEN "true"
        ELSE IF consumed # "false" THEN consumed
        ELSE EpsilonResult(f, s, st, pos, 1, inner)

\* for _, st := range state.epsilon, from the k-th edge on.
EpsilonResult(f, s, st, pos, k, act) ==
    LET eps == f.arena[st].epsilon
        r == CheckMatchResult(f, s, eps[k], pos, act)
    IN  IF k > Len(eps) THEN "false"
        ELSE IF r # "false" THEN r
        ELSE EpsilonResult(f, s, st, pos, k + 1, act)

\* n.matches(s[off:])
NfaMatches(f, s, offset) == CheckMatchResult(f, s, f.start, offset, {})

\* for len(line) > 0 { if nfa.matches(line) { return true, nil } ... }, from
\* the given offset on: what the first probe that does not fail comes to.
RECURSIVE MatchLoop(_, _, _)
MatchLoop(f, s, offset) ==
    LET r == NfaMatches(f, s, offset) IN
    IF offset >= Len(s) THEN "false"
    ELSE IF r # "false" THEN r
    ELSE MatchLoop(f, s, offset + DecodeRune(s, offset).w)

\* Match(l, pat) in one piece: how the call ends and, when it returns, what it
\* returns.
MatchOutcome(l, pat) ==
    LET q == Parse(pat, NewParser(0, <<>>))
        f == BuildNfa(q.tokens)
        r == MatchLoop(f, StringSource(l), 0)
        died(how) == [pc |-> how, result |-> [matched |-> FALSE, err |-> NoErr]]
    IN  IF pat = <<>>
        THEN [pc |-> "done", result |-> [matched |-> TRUE, err |-> NoErr]]
        ELSE IF q.panic THEN died("panic")
        ELSE IF q.err # NoErr
        THEN [pc |-> "done", result |-> [matched |-> FALSE, err |-> q.err]]
        ELSE IF f.panic THEN died("panic")
        ELSE IF r = "diverges" THEN died("overflow")
        ELSE [pc |-> "done", result |-> [matched |-> (r = "true"), err |-> NoErr]]

(***************************************************************************)
(* Bounds and inputs.                                                      *)
(***************************************************************************)
\* The depth of recursion at which the Go run time aborts the program
\* (fatal error: stack overflow), scaled down.
MaxStack == 24
\* The longest line of printable runes, and the longest line that may also
\* hold a non-printable rune.
MaxLineLen == 4
MaxCtrlLineLen == 2
\* The longest pattern of the exhaustive family.
MaxPatLen == 2
\* The longest literal string around an anchor and in a branch of a group.
MaxLitLen == 2
\* The most items (single runes, ranges) in the body of a set.
MaxSetItems == 2

SeqsUpTo(S, n) == UNION {[1..k -> S] : k \in 0..n}
SeqsFromTo(S, m, n) == UNION {[1..k -> S] : k \in m..n}

PrintLits == {LowerA, LowerB}
Lits == PrintLits \cup CtrlChars

\* The runes parseRe does not send to parseLiteral.
SpecialRunes == {LParen, RParen, Pipe, LBracket, PlusSign, Asterisk, Question,
                 Dot, Caret, Dollar, Backslash}

PatChars == SpecialRunes \cup {RBracket, Hyphen, LowerA, LowerD, Tab}

Lines == SeqsUpTo(PrintLits, MaxLineLen) \cup SeqsUpTo(Lits, MaxCtrlLineLen)

\* Every pattern up to MaxPatLen, and one pattern for each error the parser
\* reports that needs a longer pattern.
ShortPatterns == SeqsUpTo(PatChars, MaxPatLen)
LongErrorPatterns ==
    { <<LBracket, Caret, RBracket>>,
      <<LBracket, LowerB, Hyphen, LowerA, RBracket>>,
      <<LBracket, Caret, LowerB, Hyphen, LowerA, RBracket>>,
      <<LBracket, Caret, LowerA>>,
      <<LParen, LowerA, Pipe, Backslash, LowerC, RParen>>,
      <<LowerA, LParen, PlusSign, RParen, RParen>>,
      <<LowerA, LowerB, Pipe, LowerA>> }
ShortLines == {<<>>, <<LowerA>>, <<Tab>>}

\* A single literal.
LiteralPatterns == {<<c>> : c \in Lits \cup {RBracket, Hyphen}}

StarPatterns ==
    {<<a, Asterisk, b>> : a \in Lits, b \in Lits} \cup
    {<<b, a, Asterisk>> : a \in Lits, b \in Lits}

PlusPatterns ==
    {<<c, PlusSign>> : c \in Lits} \cup
    {<<t[1], t[2], PlusSign, t[3]>> : t \in Lits \X Lits \X Lits}

OptionalPatterns ==
    {<<u, v, Question>> : u \in Lits, v \in Lits} \cup
    {<<t[1], t[2], Question, t[3]>> : t \in Lits \X Lits \X Lits}

AnchorPatterns ==
    {<<Caret>> \o L : L \in SeqsFromTo(Lits, 1, MaxLitLen)} \cup
    {L \o <<Dollar>> : L \in SeqsFromTo(Lits, 1, MaxLitLen)}

\* X(A|B)Y
AltPattern(X, A, B, Y) == X \o <<LParen>> \o A \o <<Pipe>> \o B \o <<RParen>> \o Y
AltBranches == SeqsFromTo(PrintLits, 1, MaxLitLen) \cup {<<c>> : c \in CtrlChars}
AltPatterns ==
    {AltPattern(t[1], t[2], t[3], t[4]) :
        t \in {<<>>, <<LowerA>>} \X AltBranches
              \X {<<LowerB>>, <<LowerA, LowerB>>, <<Tab>>} \X {<<>>, <<LowerB>>}}

\* The body of a positive set: items, then an optional trailing hyphen.  An
\* item is a single rune <<c>> or a range <<lo, hi>> with lo <= hi.
SetItemChoices ==
    {<<LowerA>>, <<Tab>>, <<LowerA, LowerB>>, <<LowerB, LowerC>>}
ItemText(it) == IF Len(it) = 1 THEN it ELSE <<it[1], Hyphen, it[2]>>
ItemMembers(it) == IF Len(it) = 1 THEN {it[1]} ELSE it[1]..it[2]
RECURSIVE BodyText(_)
BodyText(items) ==
    IF items = <<>> THEN <<>> ELSE ItemText(Head(items)) \o BodyText(Tail(items))
SetSpecs ==
    {sp \in SeqsUpTo(SetItemChoices, MaxSetItems) \X BOOLEAN : sp[1] # <<>> \/ sp[2]}
SetPattern(sp) ==
    <<LBracket>> \o BodyText(sp[1]) \o (IF sp[2] THEN <<Hyphen>> ELSE <<>>)
        \o <<RBracket>>
SetMembers(sp) ==
    UNION {ItemMembers(sp[1][i]) : i \in DOMAIN sp[1]}
        \cup (IF sp[2] THEN {Hyphen} ELSE {})
SetPatterns == {SetPattern(sp) : sp \in SetSpecs}
SetLines == SeqsUpTo({LowerA, LowerB, LowerC, Hyphen, Tab}, MaxCtrlLineLen)

\* The negative set of the same body.
NegSetPattern(sp) ==
    <<LBracket, Caret>> \o BodyText(sp[1]) \o (IF sp[2] THEN <<Hyphen>> ELSE <<>>)
        \o <<RBracket>>
NegSetPatterns == {NegSetPattern(sp) : sp \in SetSpecs}

\* The class escapes and the plain letters of the same name, on lines over
\* the first and last rune of each class range and their neighbours.
ClassPatterns ==
    {<<Backslash, LowerD>>, <<Backslash, LowerW>>, <<LowerD>>, <<LowerW>>}
ClassProbeChars ==
    {Digit0 - 1, Digit0, Digit9, Digit9 + 1, UpperA - 1, UpperA, UpperZ, UpperZ + 1,
     Underscore, LowerA - 1, LowerA, LowerZ, LowerZ + 1, LowerD, LowerW}
ClassLines == SeqsUpTo(ClassProbeChars, MaxCtrlLineLen)

\* What may stand before a construct for the parser to reach it, at the top
\* level or inside an open group, and what may follow it.
ErrorContexts ==
    {<<>>, <<LowerA>>, <<LParen>>, <<LParen, LowerA, Pipe>>,
     <<LParen, LowerA, RParen>>}
ErrorRests == {<<>>, <<LowerA>>}

\* A closed set, positive or negative, with a range whose ends are in the
\* wrong order among its items.
RevItemChoices == {<<LowerB, LowerA>>, <<LowerC, LowerA>>}
RevBodies ==
    {items \in SeqsUpTo(SetItemChoices \cup RevItemChoices, MaxSetItems) :
        \E i \in DOMAIN items : items[i] \in RevItemChoices}
RangeErrPatterns ==
    {t[1] \o <<LBracket>> \o (IF t[2] THEN <<Caret>> ELSE <<>>) \o BodyText(t[3])
        \o (IF t[4] THEN <<Hyphen>> ELSE <<>>) \o <<RBracket>> \o t[5] :
        t \in ErrorContexts \X BOOLEAN \X RevBodies \X BOOLEAN \X ErrorRests}

\* A set that is opened and not closed, and a set that is closed at once.
UnclosedSetPatterns ==
    {t[1] \o <<LBracket>> \o (IF t[2] THEN <<Caret>> ELSE <<>>) \o t[3] :
        t \in ErrorContexts \X BOOLEAN
              \X SeqsUpTo({LowerA, Hyphen, LBracket, LParen}, MaxLitLen)}
EmptySetPatterns ==
    {t[1] \o <<LBracket>> \o (IF t[2] THEN <<Caret>> ELSE <<>>) \o <<RBracket>> \o t[3] :
        t \in ErrorContexts \X BOOLEAN
              \X (ErrorRests \cup {<<RBracket>>, <<LowerA, RBracket>>})}

\* A backslash before a rune that is none of d, w and backslash, and a
\* backslash at the end of the pattern.
UnsupportedMetaChars ==
    {LowerA, UpperA, Digit0, Dot, LParen, RParen, LBracket, Pipe, Tab}
BadMetaPatterns ==
    {ctx \o <<Backslash>> : ctx \in ErrorContexts} \cup
    {t[1] \o <<Backslash, t[2]>> \o t[3] :
        t \in ErrorContexts \X UnsupportedMetaChars \X ErrorRests}
EscapedBackslash == <<Backslash, Backslash>>
BackslashLines == SeqsUpTo({Backslash, LowerA, LowerD}, MaxCtrlLineLen)

\* "|" or ")" at the top level: at the start of the pattern, after literals,
\* after a closed group.
TopLevelPrefixes ==
    {<<>>, <<LowerA>>, <<LowerA, LowerB>>, <<LParen, LowerA, RParen>>,
     <<LParen, LowerA, RParen, LowerB>>, <<LParen, LowerA, Pipe, LowerB, RParen>>}
TopLevelDelimPatterns ==
    {t[1] \o <<t[2]>> \o t[3] :
        t \in TopLevelPrefixes \X {Pipe, RParen} \X ErrorRests}
GroupLines == ShortLines \cup SeqsUpTo(PrintLits, MaxCtrlLineLen)

\* A quantifier with no token before it: first in the pattern, right after
\* "(", right after "|" in a group.
Quantifiers == {PlusSign, Asterisk, Question}
LeadingQuantifierPatterns ==
    {t[1] \o <<t[2]>> \o t[3] :
        t \in {<<>>, <<LParen>>, <<LParen, LowerA, Pipe>>, <<LowerA, LParen>>}
              \X Quantifiers
              \X {<<>>, <<LowerA>>, <<RParen>>, <<LowerA, RParen>>}}

\* A group that is opened and not closed before the pattern ends.
UnclosedGroupPatterns ==
    {t[1] \o <<LParen>> \o t[2] :
        t \in {<<>>, <<LowerA>>, <<LParen, LowerA, RParen>>}
              \X {<<>>, <<LowerA>>, <<LowerA, LowerB>>, <<LowerA, Pipe, LowerB>>,
                  <<LParen, LowerA, RParen>>, <<LParen, LowerA>>}}

\* A group whose first branch runs into a star and whose second does not.
StarInBranchPatterns ==
    {<<LParen, LowerA, LowerB, Asterisk, LowerA, Pipe, LowerB, RParen>>}

\* A group with a branch that holds no token.
EmptyBranchPatterns ==
    {<<LParen, Pipe, LowerA, RParen>>, <<LParen, LowerA, Pipe, RParen>>,
     <<LowerA, LParen, RParen>>}

\* A wildcard or a negative set after the end anchor.
PastEndPatterns ==
    {<<LowerA, Dollar, Dot>>,
     <<LowerA, Dollar, LBracket, Caret, LowerB, RBracket>>,
     <<Dollar, LBracket, Caret, LowerB, RBracket>>,
     <<LowerA, Dollar, LowerA>>}

\* A sentinel written in the pattern, as a literal and in a set, and lines
\* that hold a sentinel of their own.
SentinelPatterns ==
    {<<BOS>>, <<EOS>>, <<BOS, LowerA>>, <<LowerA, EOS>>,
     <<LBracket, BOS, RBracket>>, <<LBracket, Caret, EOS, RBracket>>,
     <<Dot, LowerA>>, <<LowerA, Dot>>}
SentinelLines == {<<>>, <<LowerA>>, <<BOS>>, <<LowerA, EOS>>}

\* Texts of several physical lines, and anchored literals.
MaxTextLen == 3
Texts == SeqsUpTo(Lits \cup {Newline}, MaxTextLen)
AnchoredLiterals ==
    {<<Caret, LowerA>>, <<Caret, LowerB>>, <<Caret, LowerA, LowerB>>, <<Caret, Tab>>,
     <<LowerA, Dollar>>, <<LowerB, Dollar>>, <<LowerB, LowerA, Dollar>>, <<Tab, Dollar>>}

\* A quantifier after two literals, after a closed group, inside a group.
QuantifiedPatterns ==
    {<<LowerA, LowerB, PlusSign>>,
     <<LParen, LowerA, LowerB, RParen, PlusSign>>,
     <<LowerA, LParen, LowerA, LowerB, RParen, PlusSign>>,
     <<LowerA, LParen, LowerA, LowerB, RParen, Question, LowerB>>,
     <<LParen, LowerA, LowerB, RParen, Asterisk>>,
     <<LParen, LowerA, LowerB, PlusSign, RParen>>}

\* "1 apple", "100 apple" and "\d\d\d apple" of the tests.
OneApple == <<49, 32, 97, 112, 112, 108, 101>>
HundredApple == <<49, 48, 48, 32, 97, 112, 112, 108, 101>>
ThreeDigitsApple ==
    <<Backslash, LowerD, Backslash, LowerD, Backslash, LowerD, 32, 97, 112, 112, 108, 101>>

\* Groups in groups, groups side by side, groups with text after them.
NestedGroupPatterns ==
    {<<LParen, LParen, LowerA, RParen, LowerB, RParen, LowerA>>,
     <<LowerA, LParen, LowerB, RParen, LowerA>>,
     <<LParen, LowerA, LParen, LowerB, RParen, RParen>>,
     <<LParen, LowerA, RParen, LParen, LowerB, RParen>>,
     <<LParen, LParen, LowerA, RParen, Pipe, LowerB, RParen, LowerA>>,
     <<LParen, LowerA, Pipe, LParen, LowerB, RParen, RParen>>,
     <<LParen, LBracket, RParen, RBracket, RParen, LowerA>>}

Inputs ==
    ((ShortPatterns \cup LongErrorPatterns \cup RangeErrPatterns
        \cup UnclosedSetPatterns \cup EmptySetPatterns
        \cup BadMetaPatterns) \X ShortLines)
    \cup ({EscapedBackslash} \X BackslashLines)
    \cup ((TopLevelDelimPatterns \cup LeadingQuantifierPatterns
             \cup UnclosedGroupPatterns \cup EmptyBranchPatterns
             \cup PastEndPatterns \cup NestedGroupPatterns) \X GroupLines)
    \cup (({<<>>} \cup LiteralPatterns \cup StarPatterns \cup PlusPatterns \cup OptionalPatterns
             \cup AnchorPatterns \cup AltPatterns \cup StarInBranchPatterns
             \cup QuantifiedPatterns) \X Lines)
    \cup ((SetPatterns \cup NegSetPatterns) \X SetLines)
    \cup (ClassPatterns \X ClassLines)
    \cup (SentinelPatterns \X SentinelLines)
    \cup (AnchoredLiterals \X Texts)
    \cup ({<<LowerA, LowerB>>} \X Lines)
    \cup ({ThreeDigitsApple} \X {OneApple, HundredApple})

NoResult == [matched |-> FALSE, err |-> NoErr]
NotInvoked == [parseRe |-> 0, buildNfa |-> 0, matches |-> 0]

\* No caller: Match is called once, directly.
NoCli == [pc |-> "none"]
NoTesting == [pc |-> "none"]
NoSched == [running |-> 0]

Init ==
    /\ \E in \in Inputs : pattern = in[1] /\ line = in[2]
    /\ pc = "Match"
    /\ p = NewParser(0, <<>>)
    /\ nfa = NoNfa
    /\ src = <<>>
    /\ off = 0
    /\ stack = <<>>
    /\ result = NoResult
    /\ invoked = NotInvoked
    /\ cli = NoCli /\ testing = NoTesting /\ sched = NoSched

(***************************************************************************)
(* Match.                                                                  *)
(***************************************************************************)
\* A slip: the empty pattern answered with false.
MatchEmptyPattern_ReturnsFalse ==
    /\ pc = "Match"
    /\ pattern = <<>>
    /\ result' = [matched |-> FALSE, err |-> NoErr]
    /\ pc' = "done"
    /\ UNCHANGED <<pattern, line, p, nfa, src, off, stack, invoked>>
    /\ UNCHANGED callers

\* if pattern == "" { return true, nil }
MatchEmptyPattern ==
    /\ pc = "Match"
    /\ pattern = <<>>
    /\ result' = [matched |-> TRUE, err |-> NoErr]
    /\ pc' = "done"
    /\ UNCHANGED <<pattern, line, p, nfa, src, off, stack, invoked>>
    /\ UNCHANGED callers

\* A slip: the parser of the call before kept, as a compiled pattern cached
\* across calls would be.
MatchStartParse_KeepsParser ==
    /\ pc = "Match"
    /\ pattern # <<>>
    /\ p' = p
    /\ pc' = "parse"
    /\ UNCHANGED <<pattern, line, nfa, src, off, stack, result, invoked>>
    /\ UNCHANGED callers

\* p := parser{regexp: pattern}; p.parse() is entered.
MatchStartParse ==
    /\ pc = "Match"
    /\ pattern # <<>>
    /\ p' = NewParser(0, <<>>)
    /\ pc' = "parse"
    /\ UNCHANGED <<pattern, line, nfa, src, off, stack, result, invoked>>
    /\ UNCHANGED callers

\* A slip: the error of parseRe dropped, the loop going on.
ParseStep_IgnoresError ==
    /\ pc = "parse"
    /\ p.pos < Len(pattern) /\ ~p.done
    /\ LET q == ParseRe(pattern, p) IN
        /\ p' = q
        /\ pc' = IF q.panic THEN "panic" ELSE "parse"
    /\ invoked' = [invoked EXCEPT !.parseRe = 1]
    /\ UNCHANGED <<pattern, line, nfa, src, off, stack, result>>
    /\ UNCHANGED callers

\* One iteration of the loop of p.parse(): a call of parseRe.  An error is
\* returned by parse and then by Match; a panic ends the program.
ParseStep ==
    /\ pc = "parse"
    /\ p.pos < Len(pattern) /\ ~p.done
    /\ LET q == ParseRe(pattern, p) IN
        /\ p' = q
        /\ pc' = IF q.panic THEN "panic" ELSE IF q.err # NoErr THEN "done" ELSE "parse"
        /\ result' = IF ~q.panic /\ q.err # NoErr
                     THEN [matched |-> FALSE, err |-> q.err] ELSE result
    /\ invoked' = [invoked EXCEPT !.parseRe = 1]
    /\ UNCHANGED <<pattern, line, nfa, src, off, stack>>
    /\ UNCHANGED callers

\* parse returned nil: line = stringSource(line); nfa := buildNfa(p.tokens).
MatchBuild ==
    /\ pc = "parse"
    /\ ~(p.pos < Len(pattern) /\ ~p.done)
    /\ src' = StringSource(line)
    /\ LET f == BuildNfa(p.tokens) IN
        /\ nfa' = f
        /\ pc' = IF f.panic THEN "panic" ELSE "loop"
    /\ off' = 0
    /\ invoked' = [invoked EXCEPT !.buildNfa = 1]
    /\ UNCHANGED <<pattern, line, p, stack, result>>
    /\ UNCHANGED callers

\* for len(line) > 0 { if nfa.matches(line) ...: checkMatch(n.start, s) is called.
MatchProbe ==
    /\ pc = "loop"
    /\ off < Len(src)
    /\ stack' = <<Frame(nfa.start, off)>>
    /\ pc' = "checkMatch"
    /\ invoked' = [invoked EXCEPT !.matches = 1]
    /\ UNCHANGED <<pattern, line, p, nfa, src, off, result>>
    /\ UNCHANGED callers

\* The loop ends with the line used up: return false, nil.
MatchNotFound ==
    /\ pc = "loop"
    /\ off >= Len(src)
    /\ result' = [matched |-> FALSE, err |-> NoErr]
    /\ pc' = "done"
    /\ UNCHANGED <<pattern, line, p, nfa, src, off, stack, invoked>>
    /\ UNCHANGED callers

\* if state.isFinal { return true }: every caller returns true in turn, and so
\* does matches, and Match returns true, nil.
CheckFinal ==
    /\ pc = "checkMatch"
    /\ TopState.isFinal
    /\ stack' = <<>>
    /\ result' = [matched |-> TRUE, err |-> NoErr]
    /\ pc' = "done"
    /\ UNCHANGED <<pattern, line, p, nfa, src, off, invoked>>
    /\ UNCHANGED callers

\* A call of checkMatch(st, pos) from the innermost frame, which goes on
\* with alternative k when the call returns false.
Call(st, pos, k) ==
    IF Len(stack) >= MaxStack
    THEN /\ pc' = "overflow"
         /\ stack' = stack
    ELSE /\ pc' = "checkMatch"
         /\ stack' = Append(SetK(k), Frame(st, pos))

\* The consuming transition: decode a rune and follow its edge, if any.
CheckConsume ==
    /\ pc = "checkMatch"
    /\ ~TopState.isFinal
    /\ Top.k = 0
    /\ LET d == DecodeRune(src, Top.pos)
           t == ConsumeTarget(TopState, d.r)
       IN  IF t # 0
           THEN Call(t, Top.pos + d.w, 1)
           ELSE /\ stack' = SetK(1)
                /\ pc' = "checkMatch"
    /\ UNCHANGED <<pattern, line, p, nfa, src, off, result, invoked>>
    /\ UNCHANGED callers

\* The loop over state.epsilon: the next epsilon edge, on the same input.
CheckEpsilon ==
    /\ pc = "checkMatch"
    /\ ~TopState.isFinal
    /\ Top.k >= 1 /\ Top.k <= Len(TopState.epsilon)
    /\ Call(TopState.epsilon[Top.k], Top.pos, Top.k + 1)
    /\ UNCHANGED <<pattern, line, p, nfa, src, off, result, invoked>>
    /\ UNCHANGED callers

\* return false: back in the caller; from the outermost call, back in Match,
\* which drops one rune of the line.
CheckFail ==
    /\ pc = "checkMatch"
    /\ ~TopState.isFinal
    /\ Top.k > Len(TopState.epsilon)
    /\ stack' = ButLast(stack)
    /\ IF Len(stack) = 1
       THEN /\ off' = off + DecodeRune(src, off).w
            /\ pc' = "loop"
       ELSE /\ off' = off
            /\ pc' = "checkMatch"
    /\ UNCHANGED <<pattern, line, p, nfa, src, result, invoked>>
    /\ UNCHANGED callers

Next ==
    \/ MatchEmptyPattern
    \/ MatchStartParse
    \/ ParseStep
    \/ MatchBuild
    \/ MatchProbe
    \/ MatchNotFound
    \/ CheckFinal
    \/ CheckConsume
    \/ CheckEpsilon
    \/ CheckFail

Spec == Init /\ [][Next]_vars

(***************************************************************************)
(* The earlier version of the package (src/re.go): literals and \d only,   *)
(* no sentinels, and a checkMatch that also returns true when the input is *)
(* used up.  Match itself, its loop and the loop of buildNfa read as in    *)
(* the later version and are the same actions and operators.               *)
(***************************************************************************)
EarlyParseMetaChar(re, q) ==
    LET first == Peek(re, q.pos)
        pos1 == Advance(re, q.pos)
        nextChar == Peek(re, pos1)
        pos2 == Advance(re, pos1)
    IN  IF first = EOF
        THEN [q EXCEPT !.err = Err("unexpected EOF while parsing meta character")]
        ELSE IF nextChar = LowerD
        THEN [q EXCEPT !.pos = pos2, !.tokens = Append(q.tokens, DigitToken)]
        ELSE [q EXCEPT !.pos = pos2,
                       !.err = ErrF("unsupported meta character", <<nextChar>>)]

EarlyParseRe(re, q) ==
    LET nextRune == Peek(re, q.pos)
    IN  CASE nextRune = EOF -> q
          [] nextRune = Backslash -> EarlyParseMetaChar(re, q)
          [] OTHER -> ParseLiteral(re, q)

\* One iteration of the loop of p.parse().
EarlyParseStep ==
    /\ pc = "parse"
    /\ p.pos < Len(pattern)
    /\ LET q == EarlyParseRe(pattern, p) IN
        /\ p' = q
        /\ pc' = IF q.err # NoErr THEN "done" ELSE "parse"
        /\ result' = IF q.err # NoErr
                     THEN [matched |-> FALSE, err |-> q.err] ELSE result
    /\ invoked' = [invoked EXCEPT !.parseRe = 1]
    /\ UNCHANGED <<pattern, line, nfa, src, off, stack>>
    /\ UNCHANGED callers

\* nfa := buildNfa(p.tokens); the line is probed as it is.
EarlyMatchBuild ==
    /\ pc = "parse"
    /\ ~(p.pos < Len(pattern))
    /\ src' = line
    /\ nfa' = BuildNfa(p.tokens)
    /\ pc' = "loop"
    /\ off' = 0
    /\ invoked' = [invoked EXCEPT !.buildNfa = 1]
    /\ UNCHANGED <<pattern, line, p, stack, result>>
    /\ UNCHANGED callers

\* The call returns true at once.
EarlyReturnsTrue == TopState.isFinal \/ Top.pos >= Len(src)

\* if state.isFinal || len(s) == 0 { return true }
EarlyCheckFinal ==
    /\ pc = "checkMatch"
    /\ EarlyReturnsTrue
    /\ stack' = <<>>
    /\ result' = [matched |-> TRUE, err |-> NoErr]
    /\ pc' = "done"
    /\ UNCHANGED <<pattern, line, p, nfa, src, off, invoked>>
    /\ UNCHANGED callers

\* if st := state.edges[r]; st != nil { checkMatch(st[0], s[w:]) }
EarlyCheckConsume ==
    /\ pc = "checkMatch"
    /\ ~EarlyReturnsTrue
    /\ Top.k = 0
    /\ LET d == DecodeRune(src, Top.pos)
           t == Lookup(TopState.edges, d.r)
       IN  IF t # 0
           THEN Call(t, Top.pos + d.w, 1)
           ELSE /\ stack' = SetK(1)
                /\ pc' = "checkMatch"
    /\ UNCHANGED <<pattern, line, p, nfa, src, off, result, invoked>>
    /\ UNCHANGED callers

EarlyCheckEpsilon ==
    /\ pc = "checkMatch"
    /\ ~EarlyReturnsTrue
    /\ Top.k >= 1 /\ Top.k <= Len(TopState.epsilon)
    /\ Call(TopState.epsilon[Top.k], Top.pos, Top.k + 1)
    /\ UNCHANGED <<pattern, line, p, nfa, src, off, result, invoked>>
    /\ UNCHANGED callers

EarlyCheckFail ==
    /\ pc = "checkMatch"
    /\ ~EarlyReturnsTrue
    /\ Top.k > Len(TopState.epsilon)
    /\ stack' = ButLast(stack)
    /\ IF Len(stack) = 1
       THEN /\ off' = off + DecodeRune(src, off).w
            /\ pc' = "loop"
       ELSE /\ off' = off
            /\ pc' = "checkMatch"
    /\ UNCHANGED <<pattern, line, p, nfa, src, result, invoked>>
    /\ UNCHANGED callers

EarlyPatterns ==
    SeqsUpTo({LowerA, LowerB, Backslash, LowerD}, MaxLitLen)
        \cup {<<LowerA, Backslash, LowerD>>, <<Backslash, LowerD, LowerA>>}
EarlyLines == SeqsUpTo({LowerA, LowerB, Digit0}, MaxLitLen)
EarlyInputs ==
    (EarlyPatterns \X EarlyLines) \cup ({ThreeDigitsApple} \X {OneApple, HundredApple})

EarlyInit ==
    /\ \E in \in EarlyInputs : pattern = in[1] /\ line = in[2]
    /\ pc = "Match"
    /\ p = NewParser(0, <<>>)
    /\ nfa = NoNfa
    /\ src = <<>>
    /\ off = 0
    /\ stack = <<>>
    /\ result = NoResult
    /\ invoked = NotInvoked
    /\ cli = NoCli /\ testing = NoTesting /\ sched = NoSched

EarlyNext ==
    \/ MatchEmptyPattern
    \/ MatchStartParse
    \/ EarlyParseStep
    \/ EarlyMatchBuild
    \/ MatchProbe
    \/ MatchNotFound
    \/ EarlyCheckFinal
    \/ EarlyCheckConsume
    \/ EarlyCheckEpsilon
    \/ EarlyCheckFail

SpecEarly == EarlyInit /\ [][EarlyNext]_vars

(***************************************************************************)
(* The callers of Match.                                                   *)
(***************************************************************************)
\* Before the first call of Match, and between two calls, no call is running.
NoCall ==
    /\ pattern = <<>> /\ line = <<>>
    /\ pc = "idle"
    /\ p = NewParser(0, <<>>)
    /\ nfa = NoNfa
    /\ src = <<>>
    /\ off = 0
    /\ stack = <<>>
    /\ result = NoResult
    /\ invoked = NotInvoked

\* re.Match(l, pat) is entered.  Its locals are its own: p, nfa and the rest
\* hold nothing of use until Match assigns them.
EnterMatch(l, pat) ==
    /\ pattern' = pat
    /\ line' = l
    /\ pc' = "Match"
    /\ invoked' = NotInvoked
    /\ UNCHANGED <<p, nfa, src, off, stack, result>>

\* Match has returned to its caller.
LeaveMatch ==
    /\ pc' = "idle"
    /\ UNCHANGED <<pattern, line, p, nfa, src, off, stack, result, invoked>>

(***************************************************************************)
(* cmd/mygrep: cli.run.  The input is a text and whether reading fails     *)
(* once the text has been delivered; the output and error streams are what *)
(* has been written to them.                                               *)
(***************************************************************************)
EXIT_OK == 0
EXIT_NOT_MATCH == 1
EXIT_ERROR == 2

\* The longest input text.
MaxInputLen == 4

\* bufio.ScanLines from position pos < Len(text): the line up to the next
\* newline, or up to the end of the text, and the position after it.
ScanLines(text, pos) ==
    LET ends == {i \in (pos + 1)..Len(text) : text[i] = Newline}
        nl == CHOOSE i \in ends : \A j \in ends : i <= j
    IN  IF ends = {}
        THEN [line |-> SubSeq(text, pos + 1, Len(text)), pos |-> Len(text)]
        ELSE [line |-> SubSeq(text, pos + 1, nl - 1), pos |-> nl]

UsageMessage == [msg |-> "Usage: mygrep PATTERN [FILE]", err |-> NoErr]
ReadFailure == [msg |-> "Failed to read input", err |-> Err("read error")]
MatchFailure(e) == [msg |-> "Failed to match", err |-> e]

CliPatterns ==
    {<<>>, <<LowerA>>, <<LowerA, PlusSign, LowerB>>, <<LBracket>>,
     <<LowerA, Asterisk, LowerB>>, <<Pipe>>}
CliTexts == SeqsUpTo({LowerA, LowerB, Newline}, MaxInputLen)
CliArgs == {<<>>} \cup {<<pat>> : pat \in CliPatterns}

CliInit ==
    /\ \E args \in CliArgs : \E text \in CliTexts : \E fail \in BOOLEAN :
          cli = [pc |-> "run", args |-> args, in |-> [text |-> text, fail |-> fail],
                 pos |-> 0, containsMatch |-> FALSE,
                 out |-> <<>>, err |-> <<>>, exit |-> <<>>,
                 calls |-> <<>>, returns |-> <<>>]
    /\ NoCall
    /\ testing = NoTesting /\ sched = NoSched

\* if len(args) < 1 { usage; return EXIT_ERROR }
CliUsage ==
    /\ cli.pc = "run"
    /\ Len(cli.args) < 1
    /\ cli' = [cli EXCEPT !.err = Append(@, UsageMessage),
                          !.exit = <<EXIT_ERROR>>, !.pc = "returned"]
    /\ UNCHANGED <<pattern, line, pc, p, nfa, src, off, stack, result, invoked>>
    /\ UNCHANGED <<testing, sched>>

\* pattern := args[0]; containsMatch := false; scanner := bufio.NewScanner(c.in)
CliBegin ==
    /\ cli.pc = "run"
    /\ Len(cli.args) >= 1
    /\ cli' = [cli EXCEPT !.containsMatch = FALSE, !.pc = "scan"]
    /\ UNCHANGED <<pattern, line, pc, p, nfa, src, off, stack, result, invoked>>
    /\ UNCHANGED <<testing, sched>>

\* scanner.Scan() is true: line := scanner.Text(); re.Match(line, pattern) is
\* called.
CliScanLine ==
    /\ cli.pc = "scan"
    /\ cli.pos < Len(cli.in.text)
    /\ LET tok == ScanLines(cli.in.text, cli.pos) IN
        /\ cli' = [cli EXCEPT !.pos = tok.pos, !.calls = Append(@, tok.line),
                              !.pc = "match"]
        /\ EnterMatch(tok.line, cli.args[1])
    /\ UNCHANGED <<testing, sched>>

\* scanner.Scan() is false: a read failure is reported, the end of the input
\* ends the loop and run returns by containsMatch.
CliScanEnd ==
    /\ cli.pc = "scan"
    /\ cli.pos >= Len(cli.in.text)
    /\ cli' = IF cli.in.fail
              THEN [cli EXCEPT !.err = Append(@, ReadFailure),
                               !.exit = <<EXIT_ERROR>>, !.pc = "returned"]
              ELSE [cli EXCEPT !.exit = IF cli.containsMatch THEN <<EXIT_OK>>
                                                              ELSE <<EXIT_NOT_MATCH>>,
                               !.pc = "returned"]
    /\ UNCHANGED <<pattern, line, pc, p, nfa, src, off, stack, result, invoked>>
    /\ UNCHANGED <<testing, sched>>

\* A slip: the line echoed whatever Match answered.
CliMatchReturned_EchoesAll ==
    /\ cli.pc = "match"
    /\ pc = "done"
    /\ cli' = IF result.err # NoErr
              THEN [cli EXCEPT !.returns = Append(@, result),
                               !.err = Append(@, MatchFailure(result.err)),
                               !.exit = <<EXIT_ERROR>>, !.pc = "returned"]
              ELSE [cli EXCEPT !.returns = Append(@, result),
                               !.containsMatch = @ \/ result.matched,
                               !.out = @ \o line \o <<Newline>>,
                               !.pc = "scan"]
    /\ LeaveMatch
    /\ UNCHANGED <<testing, sched>>

\* ok, err := re.Match(line, pattern) has returned.
CliMatchReturned ==
    /\ cli.pc = "match"
    /\ pc = "done"
    /\ cli' = IF result.err # NoErr
              THEN [cli EXCEPT !.returns = Append(@, result),
                               !.err = Append(@, MatchFailure(result.err)),
                               !.exit = <<EXIT_ERROR>>, !.pc = "returned"]
              ELSE IF result.matched
              THEN [cli EXCEPT !.returns = Append(@, result),
                               !.containsMatch = TRUE,
                               !.out = @ \o line \o <<Newline>>,
                               !.pc = "scan"]
              ELSE [cli EXCEPT !.returns = Append(@, result), !.pc = "scan"]
    /\ LeaveMatch
    /\ UNCHANGED <<testing, sched>>

CliNext ==
    \/ CliUsage
    \/ CliBegin
    \/ CliScanLine
    \/ CliScanEnd
    \/ CliMatchReturned
    \/ Next

SpecCli == CliInit /\ [][CliNext]_vars

(***************************************************************************)
(* TestMatch: the loop that calls Match for one row of a table after the   *)
(* other, in one process.                                                  *)
(***************************************************************************)
\* The most rows in a table.
MaxTestRows == 3

\* Rows <<line, pattern>>.
TestRows ==
    {<<(<<LowerA>>), (<<LowerA>>)>>,
     <<(<<LowerB>>), (<<LowerA>>)>>,
     <<(<<LowerA, LowerB>>), (<<LowerA, Question, LowerB>>)>>,
     <<(<<LowerA>>), (<<LBracket>>)>>,
     <<(<<LowerA>>), (<<>>)>>}

TestInit ==
    /\ \E rows \in SeqsUpTo(TestRows, MaxTestRows) :
          testing = [pc |-> "loop", rows |-> rows, next |-> 1, log |-> <<>>]
    /\ NoCall
    /\ cli = NoCli /\ sched = NoSched

\* for _, tt := range tests { result, err := Match(tt.line, tt.pattern)
TestCall ==
    /\ testing.pc = "loop"
    /\ testing.next <= Len(testing.rows)
    /\ testing' = [testing EXCEPT !.pc = "call"]
    /\ EnterMatch(testing.rows[testing.next][1], testing.rows[testing.next][2])
    /\ UNCHANGED <<cli, sched>>

\* Match has returned: the row is judged by what it returned.
TestReturned ==
    /\ testing.pc = "call"
    /\ pc = "done"
    /\ testing' = [testing EXCEPT !.log = Append(@, result), !.next = @ + 1,
                                  !.pc = "loop"]
    /\ LeaveMatch
    /\ UNCHANGED <<cli, sched>>

\* The table is exhausted.
TestFinished ==
    /\ testing.pc = "loop"
    /\ testing.next > Len(testing.rows)
    /\ testing' = [testing EXCEPT !.pc = "finished"]
    /\ UNCHANGED <<pattern, line, pc, p, nfa, src, off, stack, result, invoked>>
    /\ UNCHANGED <<cli, sched>>

TestNext ==
    \/ TestCall
    \/ TestReturned
    \/ TestFinished
    \/ Next

SpecTests == TestInit /\ [][TestNext]_vars

(***************************************************************************)
(* Two goroutines, each in one call of Match.  One runs at a time; the     *)
(* scheduler may switch between any two steps.  All that Match reads and   *)
(* writes is its arguments, its locals and the objects they point to, so   *)
(* all of it belongs to the goroutine and is switched with it.  A panic or *)
(* a stack overflow in either goroutine ends the process.                  *)
(***************************************************************************)
\* Calls <<line, pattern>>.
ThreadCalls ==
    {<<(<<LowerA>>), (<<LowerA>>)>>,
     <<(<<LowerB>>), (<<LowerA>>)>>,
     <<(<<LowerA, LowerB>>), (<<LowerA, Question, LowerB>>)>>,
     <<(<<LowerA>>), (<<LBracket>>)>>,
     <<(<<LowerA>>), (<<>>)>>,
     <<(<<LowerA>>), (<<Pipe>>)>>,
     <<(<<LowerB>>), (<<LowerA, Asterisk, LowerB>>)>>}

\* The goroutine that runs, as it is now.
Context ==
    [pattern |-> pattern, line |-> line, pc |-> pc, p |-> p, nfa |-> nfa,
     src |-> src, off |-> off, stack |-> stack, result |-> result,
     invoked |-> invoked]

\* A goroutine about to enter Match(l, pat).
NewContext(l, pat) ==
    [pattern |-> pat, line |-> l, pc |-> "Match", p |-> NewParser(0, <<>>),
     nfa |-> NoNfa, src |-> <<>>, off |-> 0, stack |-> <<>>, result |-> NoResult,
     invoked |-> NotInvoked]

Resume(c) ==
    /\ pattern' = c.pattern /\ line' = c.line /\ pc' = c.pc /\ p' = c.p
    /\ nfa' = c.nfa /\ src' = c.src /\ off' = c.off /\ stack' = c.stack
    /\ result' = c.result /\ invoked' = c.invoked

OtherThread(t) == IF t = 1 THEN 2 ELSE 1

ProcessDied == pc \in {"panic", "overflow"}

ThreadInit ==
    /\ \E a \in ThreadCalls : \E b \in ThreadCalls :
          /\ pattern = a[2] /\ line = a[1]
          /\ sched = [running |-> 1, saved |-> NewContext(b[1], b[2])]
    /\ pc = "Match"
    /\ p = NewParser(0, <<>>)
    /\ nfa = NoNfa
    /\ src = <<>>
    /\ off = 0
    /\ stack = <<>>
    /\ result = NoResult
    /\ invoked = NotInvoked
    /\ cli = NoCli /\ testing = NoTesting

\* The scheduler takes the running goroutine off and puts the other one on.
Switch ==
    /\ sched.running # 0
    /\ ~ProcessDied
    /\ sched.saved.pc # "done"
    /\ sched' = [running |-> OtherThread(sched.running), saved |-> Context]
    /\ Resume(sched.saved)
    /\ UNCHANGED <<cli, testing>>

ThreadNext ==
    \/ Switch
    \/ Next

SpecThreads == ThreadInit /\ [][ThreadNext]_vars

(***************************************************************************)
(* Vocabulary of the properties.                                           *)
(***************************************************************************)
\* The call of Match is over: it returned, or the program died in it.
Terminal == pc \in {"done", "panic", "overflow"}

\* Match returned (m, nil).
Returned(m) == pc = "done" /\ result = [matched |-> m, err |-> NoErr]

Printable(s) == \A i \in DOMAIN s : s[i] >= 32 /\ s[i] <= 126

\* sub occurs in s as a contiguous substring.
Contains(s, sub) ==
    \E i \in 0..(Len(s) - Len(sub)) : SubSeq(s, i + 1, i + Len(sub)) = sub

StartsWith(s, sub) == Len(sub) <= Len(s) /\ SubSeq(s, 1, Len(sub)) = sub

EndsWith(s, sub) ==
    Len(sub) <= Len(s) /\ SubSeq(s, Len(s) - Len(sub) + 1, Len(s)) = sub

IsLiteral(c) == c \notin SpecialRunes
AllLiteral(s) == \A i \in DOMAIN s : IsLiteral(s[i])

\* s holds a, then one or more c, then b.
ContainsRepeat(s, a, c, b) ==
    \E i \in 1..Len(s) : \E n \in 1..Len(s) :
        /\ i + n + 1 <= Len(s)
        /\ s[i] = a
        /\ \A k \in 1..n : s[i + k] = c
        /\ s[i + n + 1] = b

\* Two calls of checkMatch on the call stack have the same state and the same
\* remaining input: the inner one repeats the outer one, without end.
RepeatedCall ==
    \E i \in DOMAIN stack : \E j \in DOMAIN stack :
        i < j /\ stack[i].st = stack[j].st /\ stack[i].pos = stack[j].pos

\* The scaled-down stack limit cuts no search that would have ended: the
\* stack is full only under a recursion that repeats itself.
StackBoundIsSound == pc = "overflow" => RepeatedCall

\* The steps of Match end as Match in one piece does.
StepsAgreeWithMatchOutcome ==
    Terminal =>
        /\ pc = MatchOutcome(line, pattern).pc
        /\ pc = "done" => result = MatchOutcome(line, pattern).result

(***************************************************************************)
(* C1.  For every pattern that parse accepts and every line, Match         *)
(* terminates: checkMatch never recurses forever around epsilon edges      *)
(* without consuming input, so no call repeats a call that is still active *)
(* and the stack never overflows.                                          *)
(***************************************************************************)
C1_MatchTerminates == ~RepeatedCall /\ pc # "overflow"

(***************************************************************************)
(* C2.  Match(line, "") returns (true, nil) for every line, the empty line *)
(* included, and neither parses nor builds nor runs an automaton.          *)
(***************************************************************************)
C2_EmptyPatternMatches ==
    pattern = <<>> =>
        /\ pc = "Match" \/ Returned(TRUE)
        /\ invoked = NotInvoked
        /\ nfa = NoNfa /\ p.tokens = <<>> /\ p.pos = 0 /\ stack = <<>>

C2_Witness == pattern = <<>> /\ line = <<>> /\ pc = "done"

(***************************************************************************)
(* C3.  Whenever parse returns an error, Match returns (false, that error) *)
(* and neither buildNfa nor nfa.matches is invoked: no automaton exists.   *)
(***************************************************************************)
C3_ParseErrorAborts ==
    LET whole == Parse(pattern, NewParser(0, <<>>)) IN
    /\ p.err # NoErr =>
          /\ pc = "done" /\ result = [matched |-> FALSE, err |-> p.err]
          /\ invoked.buildNfa = 0 /\ invoked.matches = 0
          /\ nfa = NoNfa /\ stack = <<>>
    /\ (Terminal /\ pattern # <<>> /\ whole.err # NoErr) =>
          /\ pc = "done" /\ result = [matched |-> FALSE, err |-> whole.err]
          /\ invoked.buildNfa = 0 /\ invoked.matches = 0

C3_Witness ==
    /\ pc = "done" /\ p.err = ErrF("invalid range", <<LowerB, LowerA>>)
    /\ line # <<>>

(***************************************************************************)
(* C4.  Star is zero or more wherever it stands: for literals a, b and     *)
(* every printable line S, Match(S, "a*b") is true exactly when S contains *)
(* b, and Match(S, "ba*") is true exactly when S contains b.               *)
(***************************************************************************)
\* The pattern is "a*b" or "ba*" for literals a and b.
StarFirst ==
    Len(pattern) = 3 /\ pattern[2] = Asterisk
        /\ IsLiteral(pattern[1]) /\ IsLiteral(pattern[3])
StarLast ==
    Len(pattern) = 3 /\ pattern[3] = Asterisk
        /\ IsLiteral(pattern[1]) /\ IsLiteral(pattern[2])

\* Match returns, so no call of checkMatch repeats an active one, and what it
\* returns is whether the line holds b.
C4_StarZeroOrMore ==
    Printable(line) =>
        /\ StarFirst =>
              /\ ~RepeatedCall
              /\ Terminal => Returned(Contains(line, <<pattern[3]>>))
        /\ StarLast =>
              /\ ~RepeatedCall
              /\ Terminal => Returned(Contains(line, <<pattern[1]>>))

\* The half that concerns "ba*".
StarLastZeroOrMore ==
    (Printable(line) /\ StarLast) =>
        /\ ~RepeatedCall
        /\ Terminal => Returned(Contains(line, <<pattern[1]>>))

(***************************************************************************)
(* C5.  Plus is one or more: for literals a, c, b and every printable line *)
(* S, Match(S, "c+") is true iff S contains c, and Match(S, "ac+b") is     *)
(* true iff S contains a, then one or more c, then b, contiguously.        *)
(***************************************************************************)
C5_PlusOneOrMore ==
    (Terminal /\ Printable(line)) =>
        /\ (Len(pattern) = 2 /\ pattern[2] = PlusSign /\ IsLiteral(pattern[1]))
              => Returned(Contains(line, <<pattern[1]>>))
        /\ (/\ Len(pattern) = 4 /\ pattern[3] = PlusSign
            /\ IsLiteral(pattern[1]) /\ IsLiteral(pattern[2]) /\ IsLiteral(pattern[4]))
              => Returned(ContainsRepeat(line, pattern[1], pattern[2], pattern[4]))

\* "ab+a" has matched a line in which b is repeated.
C5_Witness ==
    /\ pattern = <<LowerA, LowerB, PlusSign, LowerA>>
    /\ line = <<LowerA, LowerB, LowerB, LowerA>>
    /\ Returned(TRUE)

(***************************************************************************)
(* C6.  Optional is zero or one: for literals u, v, w and every printable  *)
(* line S, Match(S, "uv?w") is true iff S contains "uw" or "uvw", and      *)
(* Match(S, "uv?") is true iff S contains u.                               *)
(***************************************************************************)
C6_OptionalZeroOrOne ==
    (Terminal /\ Printable(line)) =>
        /\ (/\ Len(pattern) = 4 /\ pattern[3] = Question
            /\ IsLiteral(pattern[1]) /\ IsLiteral(pattern[2]) /\ IsLiteral(pattern[4]))
              => Returned(\/ Contains(line, <<pattern[1], pattern[4]>>)
                          \/ Contains(line, <<pattern[1], pattern[2], pattern[4]>>))
        /\ (/\ Len(pattern) = 3 /\ pattern[3] = Question
            /\ IsLiteral(pattern[1]) /\ IsLiteral(pattern[2]))
              => Returned(Contains(line, <<pattern[1]>>))

\* "ab?a" has matched a line that holds "aa" and no "aba": b was skipped.
C6_Witness ==
    /\ pattern = <<LowerA, LowerB, Question, LowerA>>
    /\ line = <<LowerB, LowerA, LowerA>>
    /\ Returned(TRUE)

(***************************************************************************)
(* C7.  Alternation matches the union of its branches in context: for      *)
(* non-empty literal sequences A, B and literal sequences X, Y and every   *)
(* line S, Match(S, X(A|B)Y) is true iff S contains XAY or XBY.            *)
(***************************************************************************)
\* The pattern is X(A|B)Y with literal X, A, B, Y, A and B non-empty: the
\* positions of its "(", "|" and ")".
AltShape(i, j, k) ==
    /\ 1 <= i /\ i + 1 < j /\ j + 1 < k /\ k <= Len(pattern)
    /\ pattern[i] = LParen /\ pattern[j] = Pipe /\ pattern[k] = RParen
    /\ \A n \in DOMAIN pattern : n \notin {i, j, k} => IsLiteral(pattern[n])

AltExpected(i, j, k) ==
    LET X == SubSeq(pattern, 1, i - 1)
        A == SubSeq(pattern, i + 1, j - 1)
        B == SubSeq(pattern, j + 1, k - 1)
        Y == SubSeq(pattern, k + 1, Len(pattern))
    IN  Contains(line, X \o A \o Y) \/ Contains(line, X \o B \o Y)

C7_AlternationIsUnion ==
    Terminal =>
        \A i \in DOMAIN pattern : \A j \in DOMAIN pattern : \A k \in DOMAIN pattern :
            AltShape(i, j, k) => Returned(AltExpected(i, j, k))

\* The same for patterns and lines of printable runes only.
AlternationIsUnionOfPrintable ==
    (Terminal /\ Printable(pattern) /\ Printable(line)) =>
        \A i \in DOMAIN pattern : \A j \in DOMAIN pattern : \A k \in DOMAIN pattern :
            AltShape(i, j, k) => Returned(AltExpected(i, j, k))

(***************************************************************************)
(* C8.  Every pattern rune that is not special is a literal that matches   *)
(* exactly itself, printable or not: Match(S, c) is true iff S contains c. *)
(***************************************************************************)
C8_LiteralMatchesItself ==
    (Terminal /\ Len(pattern) = 1 /\ IsLiteral(pattern[1])) =>
        Returned(Contains(line, pattern))

\* The same for a printable literal.
PrintableLiteralMatchesItself ==
    (Terminal /\ Len(pattern) = 1 /\ IsLiteral(pattern[1]) /\ Printable(pattern)) =>
        Returned(Contains(line, pattern))

(***************************************************************************)
(* C9.  Anchors: for every line S without newline or control runes and     *)
(* every non-empty literal string L, Match(S, "^" L) is true iff S starts  *)
(* with L, and Match(S, L "$") is true iff S ends with L.                  *)
(***************************************************************************)
C9_Anchors ==
    (Terminal /\ Printable(line) /\ Len(pattern) >= 2) =>
        /\ (pattern[1] = Caret /\ AllLiteral(Tail(pattern)))
              => Returned(StartsWith(line, Tail(pattern)))
        /\ (pattern[Len(pattern)] = Dollar /\ AllLiteral(ButLast(pattern)))
              => Returned(EndsWith(line, ButLast(pattern)))

\* "b$" was refused on a line that holds b, but not at its end, after the
\* probes from every offset.
C9_Witness ==
    /\ pattern = <<LowerB, Dollar>>
    /\ line = <<LowerB, LowerA>>
    /\ Returned(FALSE)

(***************************************************************************)
(* C10.  A positive set matches exactly its expanded members: for a body   *)
(* of single runes, ranges x-y with x <= y and an optional trailing "-",   *)
(* Match(S, "[" body "]") is true iff S holds a rune of the member set.    *)
(***************************************************************************)
C10_PositiveSetMembers ==
    (Terminal /\ pattern # <<>> /\ pattern[1] = LBracket) =>
        \A sp \in SetSpecs :
            pattern = SetPattern(sp) =>
                Returned(Range(line) \cap SetMembers(sp) # {})

\* The same for sets and lines of printable runes only.
PositiveSetMembersOfPrintable ==
    (Terminal /\ pattern # <<>> /\ pattern[1] = LBracket
        /\ Printable(pattern) /\ Printable(line)) =>
        \A sp \in SetSpecs :
            pattern = SetPattern(sp) =>
                Returned(Range(line) \cap SetMembers(sp) # {})

(***************************************************************************)
(* C11.  A negative set matches exactly the printable runes it does not    *)
(* list: for a body of single runes, ranges x-y with x <= y and an         *)
(* optional trailing "-", Match(S, "[^" body "]") is true iff S holds a    *)
(* printable rune outside the member set.  A listed rune never matches     *)
(* through the fallback edge, and neither do the sentinels: the empty line *)
(* does not match.                                                         *)
(***************************************************************************)
C11_NegativeSetMembers ==
    (Terminal /\ Len(pattern) >= 2 /\ pattern[1] = LBracket /\ pattern[2] = Caret) =>
        \A sp \in SetSpecs :
            pattern = NegSetPattern(sp) =>
                Returned(\E i \in DOMAIN line :
                            Printable(<<line[i]>>) /\ line[i] \notin SetMembers(sp))

\* "[^a-b]" was refused on a line of listed runes only, after the probes from
\* every offset, the sentinels' included.
C11_Witness ==
    /\ pattern = <<LBracket, Caret, LowerA, Hyphen, LowerB, RBracket>>
    /\ line = <<LowerB, LowerA>>
    /\ Returned(FALSE)

(***************************************************************************)
(* C12.  The class escapes match exactly their classes: Match(S, "\d") is  *)
(* true iff S holds one of '0'..'9', and Match(S, "\w") is true iff S      *)
(* holds one of a-z, A-Z, 0-9 or '_'.  Without the backslash, "d" and "w"  *)
(* are plain literals.                                                     *)
(***************************************************************************)
IsDigit(c) == c >= Digit0 /\ c <= Digit9
IsWord(c) ==
    \/ c >= LowerA /\ c <= LowerZ
    \/ c >= UpperA /\ c <= UpperZ
    \/ IsDigit(c)
    \/ c = Underscore

C12_ClassEscapes ==
    Terminal =>
        /\ pattern = <<Backslash, LowerD>> =>
              Returned(\E i \in DOMAIN line : IsDigit(line[i]))
        /\ pattern = <<Backslash, LowerW>> =>
              Returned(\E i \in DOMAIN line : IsWord(line[i]))
        /\ pattern \in {<<LowerD>>, <<LowerW>>} =>
              Returned(Contains(line, pattern))

\* "\w" has matched a line whose only word rune is the underscore.
C12_Witness ==
    /\ pattern = <<Backslash, LowerW>>
    /\ line = <<Digit9 + 1, Underscore>>
    /\ Returned(TRUE)

(***************************************************************************)
(* C13.  A range whose start is greater than its end, in a positive or a   *)
(* negative set, makes Match return (false, error) with the message        *)
(* "invalid range: <start>-<end>" for every line: such a set never yields  *)
(* a boolean match result.                                                 *)
(***************************************************************************)
\* pattern[i] "-" pattern[i + 2] is a range with its ends in the wrong order.
ReversedAt(i) ==
    /\ pattern[i + 1] = Hyphen /\ pattern[i + 2] # RBracket
    /\ pattern[i] > pattern[i + 2]
FirstReversed ==
    CHOOSE i \in 1..(Len(pattern) - 2) :
        ReversedAt(i) /\ \A j \in 1..(i - 1) : ~ReversedAt(j)

C13_InvalidRange ==
    (Terminal /\ pattern \in RangeErrPatterns) =>
        /\ pc = "done"
        /\ result = [matched |-> FALSE,
                     err |-> ErrF("invalid range",
                                  <<pattern[FirstReversed], pattern[FirstReversed + 2]>>)]

\* The negative set "[^a-bc-a]", met in the second branch of a group, has
\* made Match fail on a non-empty line.
C13_Witness ==
    /\ pattern = <<LParen, LowerA, Pipe, LBracket, Caret, LowerA, Hyphen, LowerB,
                   LowerC, Hyphen, LowerA, RBracket>>
    /\ line = <<LowerA>>
    /\ pc = "done"
    /\ result.err = ErrF("invalid range", <<LowerC, LowerA>>)

(***************************************************************************)
(* C14.  Every set token that a parse without error has produced has a     *)
(* closing "]" in the pattern and at least one member: "[" or "[^" with no *)
(* "]" after it makes Match return an error, and so do "[]" and "[^]".     *)
(***************************************************************************)
RECURSIVE EverySetHasMembers(_)
EverySetHasMembers(t) ==
    CASE t.type \in {"positiveSet", "negativeSet"} -> Len(t.setItems) >= 1
      [] t.type \in {"plus", "star", "optional"} -> EverySetHasMembers(t.payload)
      [] t.type = "group" ->
            \A i \in DOMAIN t.payload : \A j \in DOMAIN t.payload[i] :
                EverySetHasMembers(t.payload[i][j])
      [] OTHER -> TRUE

RECURSIVE HasSet(_)
HasSet(t) ==
    CASE t.type \in {"positiveSet", "negativeSet"} -> TRUE
      [] t.type \in {"plus", "star", "optional"} -> HasSet(t.payload)
      [] t.type = "group" ->
            \E i \in DOMAIN t.payload : \E j \in DOMAIN t.payload[i] :
                HasSet(t.payload[i][j])
      [] OTHER -> FALSE

C14_SetsAreClosedAndNotEmpty ==
    /\ (p.err = NoErr /\ ~p.panic) =>
          \A i \in DOMAIN p.tokens :
              /\ EverySetHasMembers(p.tokens[i])
              /\ HasSet(p.tokens[i]) => ContainsRune(pattern, 0, RBracket)
    /\ (Terminal /\ pattern \in UnclosedSetPatterns \cup EmptySetPatterns) =>
          pc = "done" /\ result.matched = FALSE /\ result.err # NoErr

\* "[^]a]" is an empty negative set, for all the "]" that follows it.
C14_Witness ==
    /\ pattern = <<LBracket, Caret, RBracket, LowerA, RBracket>>
    /\ pc = "done"
    /\ result = [matched |-> FALSE, err |-> Err("empty negative set")]

(***************************************************************************)
(* C15.  A backslash is accepted only before d, w or another backslash:    *)
(* two backslashes parse to a literal backslash, and a backslash before    *)
(* any other rune, or as the last rune of the pattern, makes Match return  *)
(* (false, error), the error reporting an unsupported meta character.      *)
(***************************************************************************)
FirstBackslash ==
    CHOOSE i \in DOMAIN pattern :
        pattern[i] = Backslash /\ \A j \in 1..(i - 1) : pattern[j] # Backslash
\* The rune after the first backslash, EOF if there is none.
Escaped ==
    IF FirstBackslash = Len(pattern) THEN EOF ELSE pattern[FirstBackslash + 1]

ReturnedError == pc = "done" /\ result.matched = FALSE /\ result.err # NoErr

C16_TopLevelDelimiterIsError ==
    (Terminal /\ pattern \in TopLevelDelimPatterns) => ReturnedError

\* The case of ordinary tokens before the "|" or ")".
DelimiterAfterLiteralsIsError ==
    (Terminal /\ pattern \in TopLevelDelimPatterns
        /\ pattern[1] \notin {LParen, Pipe, RParen}) =>
        /\ pc = "done" /\ result.matched = FALSE
        /\ result.err \in {Err("expected group before '|'"),
                           Err("expected group before ')'")}

(***************************************************************************)
(* C17.  A quantifier with no token before it is a grammar error: for      *)
(* every pattern in which "+", "*" or "?" is the first rune, or comes      *)
(* right after "(" or right after "|" in a group, Match returns            *)
(* (false, error) for every line, whatever the rest of the pattern.        *)
(***************************************************************************)
C17_LeadingQuantifierIsError ==
    (Terminal /\ pattern \in LeadingQuantifierPatterns) =>
        /\ pc = "done"
        /\ result.matched = FALSE
        /\ result.err # NoErr

\* The case of the quantifier that is the first rune of the pattern.
QuantifierFirstIsError ==
    (Terminal /\ pattern \in LeadingQuantifierPatterns
        /\ pattern[1] \in Quantifiers) =>
        /\ pc = "done" /\ result.matched = FALSE
        /\ result.err \in {Err("no character to apply '+' to"),
                           Err("no character to apply '*' to"),
                           Err("no character to apply '?' to")}

(***************************************************************************)
(* C18.  A group that is opened with "(" and never closed is a grammar     *)
(* error: for every pattern whose end is reached while a group is still    *)
(* open, Match returns (false, error).                                     *)
(***************************************************************************)
C18_UnclosedGroupIsError ==
    (Terminal /\ pattern \in UnclosedGroupPatterns) => ReturnedError

(***************************************************************************)
(* C19.  In the token sequence of a parse that returned no error, every    *)
(* group token, nested ones included, has at least one branch, and the     *)
(* inner token of every plus, star and optional is a token of the pattern, *)
(* never a group accumulator with no branch.                               *)
(***************************************************************************)
RECURSIVE GroupsHaveBranches(_)
GroupsHaveBranches(t) ==
    CASE t.type \in {"plus", "star", "optional"} -> GroupsHaveBranches(t.payload)
      [] t.type = "group" ->
            /\ Len(t.payload) >= 1
            /\ \A i \in DOMAIN t.payload : \A j \in DOMAIN t.payload[i] :
                  GroupsHaveBranches(t.payload[i][j])
      [] OTHER -> TRUE

C19_GroupsHaveBranches ==
    invoked.buildNfa = 1 =>
        \A i \in DOMAIN p.tokens : GroupsHaveBranches(p.tokens[i])

\* The same for the patterns that hold no more "(" than ")".
Count(r) == Cardinality({i \in DOMAIN pattern : pattern[i] = r})
ClosedGroupsHaveBranches ==
    (invoked.buildNfa = 1 /\ Count(LParen) <= Count(RParen)) =>
        \A i \in DOMAIN p.tokens : GroupsHaveBranches(p.tokens[i])

(***************************************************************************)
(* C20.  For a pattern that is not empty and that parse accepts,           *)
(* Match(line, pattern) returns true iff nfa.matches succeeds on one of    *)
(* the suffixes of stringSource(line), the whole of it included.  The      *)
(* suffixes are tried from the longest on: Match returns (true, nil) at    *)
(* the first that succeeds, and (false, nil) only when all have failed.    *)
(***************************************************************************)
Offsets == 0..(Len(src) - 1)

C20_MatchIsUnanchoredSearch ==
    (Terminal /\ invoked.buildNfa = 1 /\ ~nfa.panic) =>
        /\ Returned(TRUE) <=> \E k \in Offsets : NfaMatches(nfa, src, k) = "true"
        /\ Returned(TRUE) =>
              /\ NfaMatches(nfa, src, off) = "true"
              /\ \A k \in 0..(off - 1) : NfaMatches(nfa, src, k) = "false"
        /\ Returned(FALSE) =>
              /\ off = Len(src)
              /\ \A k \in Offsets : NfaMatches(nfa, src, k) = "false"
        /\ pc = "done" => result.err = NoErr

\* What the loop of Match does in every run: the first suffix on which
\* nfa.matches does not fail decides, and Match returns only if there
\* nfa.matches returns.
Decisive == {k \in Offsets : NfaMatches(nfa, src, k) # "false"}
FirstDecisive == CHOOSE k \in Decisive : \A j \in Decisive : k <= j
MatchFollowsFirstDecisiveProbe ==
    (Terminal /\ invoked.buildNfa = 1 /\ ~nfa.panic) =>
        IF Decisive = {} THEN Returned(FALSE) /\ off = Len(src)
        ELSE IF NfaMatches(nfa, src, FirstDecisive) = "true"
        THEN Returned(TRUE) /\ off = FirstDecisive
        ELSE pc = "overflow" /\ off = FirstDecisive /\ RepeatedCall

(***************************************************************************)
(* C21.  cli.run returns 0 if at least one input line matched, 1 if none   *)
(* matched, and 2, with a diagnostic on the error stream, on a usage error *)
(* (no arguments), a read failure or a grammar error in the pattern, for   *)
(* every input, the input with no lines included.                          *)
(***************************************************************************)
\* The lines of a text: what stands between its newlines, with no line after
\* the last newline.
RECURSIVE LinesOf(_)
LinesOf(text) ==
    LET ends == {i \in DOMAIN text : text[i] = Newline}
        nl == CHOOSE i \in ends : \A j \in ends : i <= j
    IN  IF text = <<>> THEN <<>>
        ELSE IF ends = {} THEN <<text>>
        ELSE <<SubSeq(text, 1, nl - 1)>> \o LinesOf(SubSeq(text, nl + 1, Len(text)))

GrammarError(pat) ==
    LET q == Parse(pat, NewParser(0, <<>>)) IN
    pat # <<>> /\ ~q.panic /\ q.err # NoErr

SomeLineMatches(text, pat) ==
    \E i \in DOMAIN LinesOf(text) :
        MatchOutcome(LinesOf(text)[i], pat) =
            [pc |-> "done", result |-> [matched |-> TRUE, err |-> NoErr]]

\* What the claim has cli.run return.
ClaimedExit ==
    IF Len(cli.args) < 1 \/ cli.in.fail \/ GrammarError(cli.args[1])
    THEN EXIT_ERROR
    ELSE IF SomeLineMatches(cli.in.text, cli.args[1]) THEN EXIT_OK
    ELSE EXIT_NOT_MATCH

C21_ExitCodes ==
    cli.pc = "returned" =>
        /\ cli.exit = <<ClaimedExit>>
        /\ ClaimedExit = EXIT_ERROR => cli.err # <<>>

\* The same for the inputs with at least one line.
ExitCodesOnInputWithLines ==
    (cli.pc = "returned" /\ (Len(cli.args) < 1 \/ cli.in.text # <<>>)) =>
        /\ cli.exit = <<ClaimedExit>>
        /\ ClaimedExit = EXIT_ERROR => cli.err # <<>>

(***************************************************************************)
(* C22.  cli.run calls Match once for each input line it reads, in the     *)
(* order of the input, and writes to the output stream the lines for which *)
(* Match returned true, each followed by a newline, in that order, and     *)
(* nothing else: no line that did not match, and nothing after a call that *)
(* returned an error.                                                      *)
(***************************************************************************)
\* The lines among the first n for which Match returned true, each with its
\* newline.
RECURSIVE Echo(_, _, _)
Echo(lines, returns, n) ==
    IF n = 0 THEN <<>>
    ELSE Echo(lines, returns, n - 1)
            \o (IF returns[n].matched /\ returns[n].err = NoErr
                THEN lines[n] \o <<Newline>> ELSE <<>>)

C22_EchoesMatchingLines ==
    cli.pc # "run" /\ Len(cli.args) >= 1 =>
        LET lines == LinesOf(cli.in.text)
            read == LinesOf(SubSeq(cli.in.text, 1, cli.pos))
            running == IF cli.pc = "match" THEN 1 ELSE 0
        IN  /\ cli.calls = read
            /\ cli.calls = SubSeq(lines, 1, Len(cli.calls))
            /\ Len(cli.returns) = Len(cli.calls) - running
            /\ cli.out = Echo(cli.calls, cli.returns, Len(cli.returns))
            /\ \A i \in DOMAIN cli.returns :
                  cli.returns[i].err # NoErr =>
                      i = Len(cli.returns) /\ cli.pc = "returned"
            /\ (cli.pc = "returned" /\ cli.exit # <<EXIT_ERROR>>) => cli.calls = lines

\* Of the lines "b" and "ab" of the input "b\nab", the second was echoed, and
\* run returned 0.
C22_Witness ==
    /\ cli.pc = "returned"
    /\ cli.args = <<(<<LowerA>>)>>
    /\ cli.calls = <<(<<LowerB>>), (<<LowerA, LowerB>>)>>
    /\ cli.out = <<LowerA, LowerB, Newline>>
    /\ cli.exit = <<EXIT_OK>>

(***************************************************************************)
(* C23.  Match is deterministic and keeps nothing from one call to the     *)
(* next: called again on the same line and pattern, after any other calls, *)
(* it returns the same (bool, error) as before.                            *)
(***************************************************************************)
C23_SameArgumentsSameResult ==
    /\ \A i \in DOMAIN testing.log : \A j \in DOMAIN testing.log :
          testing.rows[i] = testing.rows[j] => testing.log[i] = testing.log[j]
    /\ \A i \in DOMAIN testing.log :
          testing.log[i] = MatchOutcome(testing.rows[i][1], testing.rows[i][2]).result

\* Match was called on ("a", "a"), then on ("ab", "a?b"), then on ("a", "a")
\* again.
C23_Witness ==
    /\ testing.pc = "finished"
    /\ testing.rows = << <<(<<LowerA>>), (<<LowerA>>)>>,
                         <<(<<LowerA, LowerB>>), (<<LowerA, Question, LowerB>>)>>,
                         <<(<<LowerA>>), (<<LowerA>>)>> >>
    /\ Len(testing.log) = Len(testing.rows)
    /\ testing.log[1].matched /\ testing.log[Len(testing.log)].matched

(***************************************************************************)
(* C24.  Concurrent calls of Match do not interfere: of two calls that run *)
(* interleaved in two threads, each returns what it returns when it runs   *)
(* alone.                                                                  *)
(***************************************************************************)
\* How a goroutine in context c ends when its call runs alone.
Alone(c) == MatchOutcome(c.line, c.pattern)
EndedAsAlone(c) ==
    /\ c.pc = Alone(c).pc
    /\ c.pc = "done" => c.result = Alone(c).result

\* No step is left to the process.
ProcessEnded == ProcessDied \/ (pc = "done" /\ sched.saved.pc = "done")

C24_ThreadsDoNotInterfere ==
    ProcessEnded => EndedAsAlone(Context) /\ EndedAsAlone(sched.saved)

\* Whatever a goroutine reaches, it reaches as alone: when its call is over,
\* it is over as it is alone, and two calls that both return alone both return.
ThreadsShareNoState ==
    /\ Context.pc \in {"done", "panic", "overflow"} => EndedAsAlone(Context)
    /\ sched.saved.pc \in {"done", "panic", "overflow"} => EndedAsAlone(sched.saved)
    /\ (ProcessEnded /\ Alone(Context).pc = "done" /\ Alone(sched.saved).pc = "done")
          => EndedAsAlone(Context) /\ EndedAsAlone(sched.saved)

(***************************************************************************)
(* C25.  Match is total: for every pattern and every line the call returns *)
(* a (bool, error) pair; it never aborts, neither in parseOr or            *)
(* parseClosingGroup on an empty token list nor in groupToken.toNfa on a   *)
(* branch without tokens.                                                  *)
(***************************************************************************)
C25_MatchIsTotal ==
    /\ pc # "panic"
    /\ Terminal => pc = "done" /\ result.matched \in BOOLEAN

\* Where the aborts are: the parser on a delimiter with no token before it,
\* the builder on a branch without tokens.
AbortsInParser == pc = "panic" /\ p.panic /\ pattern[1] \in {Pipe, RParen}
AbortsInBuilder == pc = "panic" /\ ~p.panic /\ nfa.panic
AbortsOnEmptyBranch == AbortsInBuilder /\ pattern \in EmptyBranchPatterns

(***************************************************************************)
(* C26.  In the automaton that buildNfa returns for a pattern that parsed, *)
(* exactly one of the states reachable from nfa.start, nfa.end counted in, *)
(* has the terminal flag, and it is nfa.end; the exits of earlier          *)
(* fragments, the exits of group branches and the dead ends of negative    *)
(* sets do not have it.                                                    *)
(***************************************************************************)
Successors(st) ==
    {st.edges[r] : r \in DOMAIN st.edges}
        \cup {st.control[r] : r \in DOMAIN st.control}
        \cup ({st.anyChar} \ {0})
        \cup {st.epsilon[k] : k \in DOMAIN st.epsilon}

RECURSIVE ReachableFrom(_, _)
ReachableFrom(f, seen) ==
    LET more == UNION {Successors(f.arena[i]) : i \in seen} IN
    IF more \subseteq seen THEN seen ELSE ReachableFrom(f, seen \cup more)

Reachable(f) == ReachableFrom(f, {f.start})
TerminalStates(f) == {i \in Reachable(f) \cup {f.end} : f.arena[i].isFinal}

\* buildNfa has just returned an automaton; no later step of Match writes to it.
Built == pc = "loop" /\ off = 0 /\ invoked.buildNfa = 1 /\ ~nfa.panic /\ nfa.start # 0

C26_OneTerminalState ==
    Built =>
        /\ TerminalStates(nfa) = {nfa.end}
        /\ \A i \in DOMAIN nfa.arena : nfa.arena[i].isFinal => i = nfa.end

\* An automaton with an earlier fragment and a group of two branches.
C26_Witness ==
    /\ Built
    /\ pattern \in AltPatterns
    /\ pattern[1] # LParen
    /\ \E i \in Reachable(nfa) : Len(nfa.arena[i].epsilon) = 2

(***************************************************************************)
(* C27.  A consuming transition of checkMatch (character edge, any-        *)
(* character edge, control edge) consumes exactly one character of the     *)
(* remaining input and is never taken on empty remaining input; so a       *)
(* wildcard or a negative set never succeeds at the end of the annotated   *)
(* text: Match("a", "a$.") is false.                                       *)
(***************************************************************************)
\* Frame i made its consuming call, and the call is frame i + 1: the caller
\* goes on with its first epsilon edge when the call returns.
ConsumingCall(i) == i < Len(stack) /\ stack[i].k = 1

C27_ConsumesOneCharacter ==
    /\ \A i \in DOMAIN stack :
          ConsumingCall(i) =>
              /\ stack[i].pos < Len(src)
              /\ stack[i + 1].pos = stack[i].pos + 1
    /\ (Terminal /\ line = <<LowerA>> /\ pattern = <<LowerA, Dollar, Dot>>)
          => Returned(FALSE)

\* As long as input remains, a consuming transition consumes one character.
ConsumesOneWhileInputRemains ==
    \A i \in DOMAIN stack :
        (ConsumingCall(i) /\ stack[i].pos < Len(src))
            => stack[i + 1].pos = stack[i].pos + 1

\* A consuming transition at the end of the input, which consumes nothing.
ConsumesAtEnd ==
    \E i \in DOMAIN stack :
        ConsumingCall(i) /\ stack[i].pos = Len(src) /\ stack[i + 1].pos = stack[i].pos

(***************************************************************************)
(* C28.  The two alphabets never mix in checkMatch: a sentinel in the      *)
(* input is consumed only through a control edge, which only "^" and "$"   *)
(* create, never through a character edge or an any-character edge; and    *)
(* "^" and "$" never consume a printable character.                        *)
(***************************************************************************)
\* Of the consuming call of frame i: the rune decoded, the state it leaves
\* and the state it enters.
ConsumedRune(i) == DecodeRune(src, stack[i].pos).r
ConsumedFrom(i) == nfa.arena[stack[i].st]
ConsumedTo(i) == stack[i + 1].st

ViaControl(i) ==
    /\ ConsumedRune(i) \in DOMAIN ConsumedFrom(i).control
    /\ ConsumedFrom(i).control[ConsumedRune(i)] = ConsumedTo(i)
    /\ DOMAIN ConsumedFrom(i).edges = {}
    /\ ConsumedFrom(i).anyChar = 0

\* The states with control edges are the entries of the anchors, each keyed
\* by its own sentinel alone.
IsAnchorEntry(st) == DOMAIN st.control # {}

C28_AlphabetsNeverMix ==
    /\ \A i \in DOMAIN stack :
          ConsumingCall(i) =>
              /\ ConsumedRune(i) \in {BOS, EOS} => ViaControl(i)
              /\ IsAnchorEntry(ConsumedFrom(i)) =>
                    /\ ~IsPrint(ConsumedRune(i))
                    /\ DOMAIN ConsumedFrom(i).control = {ConsumedRune(i)}
    /\ \A n \in DOMAIN nfa.arena :
          IsAnchorEntry(nfa.arena[n]) => DOMAIN nfa.arena[n].control \in {{BOS}, {EOS}}

\* The end sentinel consumed by "$" in a pattern that also has a wildcard,
\* which has met a sentinel before.
C28_Witness ==
    /\ \E i \in DOMAIN stack : ConsumingCall(i) /\ ConsumedRune(i) = EOS
    /\ \E n \in DOMAIN nfa.arena : nfa.arena[n].anyChar # 0
    /\ off > 0

\* A sentinel written in the pattern never meets the sentinel of the input.
SentinelLiteralNeverMatches ==
    (Terminal /\ pattern \in {<<BOS>>, <<EOS>>, <<LBracket, BOS, RBracket>>})
        => Returned(FALSE)

(***************************************************************************)
(* C29.  stringSource(input) is the begin sentinel, the input with every   *)
(* newline replaced by the pair end sentinel, begin sentinel and nothing   *)
(* else changed, and the end sentinel; so on a text with newlines          *)
(* Match(text, "^" L) is true iff some physical line of the text starts    *)
(* with L, and Match(text, L "$") is true iff some physical line ends      *)
(* with L.                                                                 *)
(***************************************************************************)
HasNewline(s) == \E i \in DOMAIN s : s[i] = Newline
FirstNewline(s) == CHOOSE i \in DOMAIN s : s[i] = Newline /\ \A j \in 1..(i - 1) : s[j] # Newline

\* The physical lines of a text: what stands between its newlines.
RECURSIVE PhysicalLines(_)
PhysicalLines(s) ==
    IF ~HasNewline(s) THEN <<s>>
    ELSE <<SubSeq(s, 1, FirstNewline(s) - 1)>>
            \o PhysicalLines(SubSeq(s, FirstNewline(s) + 1, Len(s)))

\* Every line between its own pair of sentinels.
RECURSIVE Bracketed(_)
Bracketed(ls) ==
    IF ls = <<>> THEN <<>>
    ELSE <<BOS>> \o Head(ls) \o <<EOS>> \o Bracketed(Tail(ls))

SomePhysicalLine(s, P(_)) == \E n \in DOMAIN PhysicalLines(s) : P(PhysicalLines(s)[n])

SourceIsAnnotatedText ==
    invoked.buildNfa = 1 =>
        /\ src = Bracketed(PhysicalLines(line))
        /\ Len(src) = Len(line) + 2 + Cardinality({i \in DOMAIN line : line[i] = Newline})

C29_AnchorsPerPhysicalLine ==
    /\ SourceIsAnnotatedText
    /\ (Terminal /\ HasNewline(line) /\ Len(pattern) >= 2) =>
          /\ (pattern[1] = Caret /\ AllLiteral(Tail(pattern)))
                => LET starts(l) == StartsWith(l, Tail(pattern))
                   IN  Returned(SomePhysicalLine(line, starts))
          /\ (pattern[Len(pattern)] = Dollar /\ AllLiteral(ButLast(pattern)))
                => LET ends(l) == EndsWith(l, ButLast(pattern))
                   IN  Returned(SomePhysicalLine(line, ends))

\* The same for texts and literals of printable characters and newlines.
PrintableAnchorsPerPhysicalLine ==
    /\ SourceIsAnnotatedText
    /\ (Terminal /\ HasNewline(line) /\ Len(pattern) >= 2
            /\ \A i \in DOMAIN line : line[i] = Newline \/ IsPrint(line[i])) =>
          /\ (pattern[1] = Caret /\ AllLiteral(Tail(pattern)) /\ Printable(Tail(pattern)))
                => LET starts(l) == StartsWith(l, Tail(pattern))
                   IN  Returned(SomePhysicalLine(line, starts))
          /\ (pattern[Len(pattern)] = Dollar /\ AllLiteral(ButLast(pattern))
                  /\ Printable(ButLast(pattern)))
                => LET ends(l) == EndsWith(l, ButLast(pattern))
                   IN  Returned(SomePhysicalLine(line, ends))

\* "^b" found on the second physical line of a text.
AnchorOnSecondLine ==
    /\ pattern = <<Caret, LowerB>>
    /\ line = <<LowerA, Newline, LowerB>>
    /\ Returned(TRUE)

(***************************************************************************)
(* C30.  A quantifier binds to the one token parsed before it: parsePlus,  *)
(* parseStar and parseOptional replace the last token of the sequence by a *)
(* wrapper that holds it, and leave every earlier token and the length of  *)
(* the sequence as they are; so Match(S, "ab+") is true iff S contains     *)
(* "ab", and a quantifier after a closed group wraps the whole group.      *)
(***************************************************************************)
Wrapper(r, t) ==
    CASE r = PlusSign -> PlusToken(t)
      [] r = Asterisk -> StarToken(t)
      [] r = Question -> OptionalToken(t)

\* The step of parse() that is a call of parsePlus, parseStar or
\* parseOptional on a sequence that is not empty.
QuantifierStep ==
    /\ pc = "parse" /\ p.pos < Len(pattern) /\ ~p.done
    /\ Peek(pattern, p.pos) \in Quantifiers
    /\ p.tokens # <<>>
    /\ p' # p

QuantifierFrame ==
    QuantifierStep =>
        /\ Len(p'.tokens) = Len(p.tokens)
        /\ \A i \in 1..(Len(p.tokens) - 1) : p'.tokens[i] = p.tokens[i]
        /\ p'.tokens[Len(p.tokens)]
              = Wrapper(Peek(pattern, p.pos), p.tokens[Len(p.tokens)])
        /\ p'.pos = p.pos + 1
        /\ p'.err = NoErr /\ ~p'.panic

LitA == LiteralToken(LowerA)
LitB == LiteralToken(LowerB)
GroupAB == GroupToken(<<(<<LitA, LitB>>)>>)

\* The tokens of the pattern once parse() has returned.
Parsed(pat, tokens) == (pattern = pat /\ invoked.buildNfa = 1) => p.tokens = tokens

QuantifierWrapsOneToken ==
    /\ Parsed(<<LowerA, LowerB, PlusSign>>, <<LitA, PlusToken(LitB)>>)
    /\ Parsed(<<LParen, LowerA, LowerB, RParen, PlusSign>>, <<PlusToken(GroupAB)>>)
    /\ Parsed(<<LowerA, LParen, LowerA, LowerB, RParen, PlusSign>>,
              <<LitA, PlusToken(GroupAB)>>)
    /\ Parsed(<<LowerA, LParen, LowerA, LowerB, RParen, Question, LowerB>>,
              <<LitA, OptionalToken(GroupAB), LitB>>)
    /\ Parsed(<<LParen, LowerA, LowerB, RParen, Asterisk>>, <<StarToken(GroupAB)>>)
    /\ Parsed(<<LParen, LowerA, LowerB, PlusSign, RParen>>,
              <<GroupToken(<<(<<LitA, PlusToken(LitB)>>)>>)>>)

QuantifiedMatches ==
    Terminal =>
        /\ pattern \in {<<LowerA, LowerB, PlusSign>>,
                         <<LParen, LowerA, LowerB, RParen, PlusSign>>,
                         <<LParen, LowerA, LowerB, PlusSign, RParen>>}
              => Returned(Contains(line, <<LowerA, LowerB>>))
        /\ pattern = <<LowerA, LParen, LowerA, LowerB, RParen, PlusSign>>
              => Returned(Contains(line, <<LowerA, LowerA, LowerB>>))
        /\ pattern = <<LowerA, LParen, LowerA, LowerB, RParen, Question, LowerB>>
              => Returned(Contains(line, <<LowerA, LowerB>>)
                            \/ Contains(line, <<LowerA, LowerA, LowerB, LowerB>>))
        /\ pattern = <<LParen, LowerA, LowerB, RParen, Asterisk>>
              => Returned(TRUE)

C30_QuantifierBindsOneToken ==
    /\ [][QuantifierFrame]_vars
    /\ [](QuantifierWrapsOneToken /\ QuantifiedMatches)

\* "a(ab)?b" has matched with the group taken as a whole.
C30_Witness ==
    /\ pattern = <<LowerA, LParen, LowerA, LowerB, RParen, Question, LowerB>>
    /\ line = <<LowerA, LowerA, LowerB, LowerB>>
    /\ p.tokens = <<LitA, OptionalToken(GroupAB), LitB>>
    /\ Returned(TRUE)

(***************************************************************************)
(* C31.  When parseGroup succeeds on a group that ")" closes, the parent   *)
(* parser stands just after the ")" that matches the group's "(" (an inner *)
(* ")" closes the innermost open group only), one group token has been     *)
(* appended to the parent's tokens, and the parent parses the rest of the  *)
(* pattern at its own level.                                               *)
(***************************************************************************)
\* The position just after the ")" that closes the group whose body starts at
\* index i of re, by counting parentheses outside of sets; 0 if there is none.
RECURSIVE CloseAfter(_, _, _, _)
CloseAfter(re, i, depth, inSet) ==
    IF i > Len(re) THEN 0
    ELSE IF inSet THEN CloseAfter(re, i + 1, depth, re[i] # RBracket)
    ELSE IF re[i] = LBracket THEN CloseAfter(re, i + 1, depth, TRUE)
    ELSE IF re[i] = LParen THEN CloseAfter(re, i + 1, depth + 1, FALSE)
    ELSE IF re[i] = RParen
         THEN IF depth = 1 THEN i ELSE CloseAfter(re, i + 1, depth - 1, FALSE)
    ELSE CloseAfter(re, i + 1, depth, FALSE)

\* For "(" at position pos (counted from 0).
MatchingClose(re, pos) == CloseAfter(re, pos + 2, 1, FALSE)

\* The step of parse() that is a call of parseGroup which succeeds, on a
\* group that is closed.
GroupStep ==
    /\ pc = "parse" /\ p.pos < Len(pattern) /\ ~p.done
    /\ Peek(pattern, p.pos) = LParen
    /\ p' # p
    /\ ~Failed(p')
    /\ MatchingClose(pattern, p.pos) # 0

GroupFrame ==
    GroupStep =>
        /\ p'.pos = MatchingClose(pattern, p.pos)
        /\ Len(p'.tokens) = Len(p.tokens) + 1
        /\ \A i \in DOMAIN p.tokens : p'.tokens[i] = p.tokens[i]
        /\ p'.tokens[Len(p'.tokens)].type = "group"
        /\ ~p'.done

GroupOf(branches) == GroupToken(branches)
GroupA == GroupOf(<<(<<LitA>>)>>)
GroupB == GroupOf(<<(<<LitB>>)>>)

\* The rest of the pattern goes to the parent, a group in a group to the
\* branch it stands in.
GroupsNest ==
    /\ Parsed(<<LParen, LParen, LowerA, RParen, LowerB, RParen, LowerA>>,
              <<GroupOf(<<(<<GroupA, LitB>>)>>), LitA>>)
    /\ Parsed(<<LowerA, LParen, LowerB, RParen, LowerA>>, <<LitA, GroupB, LitA>>)
    /\ Parsed(<<LParen, LowerA, LParen, LowerB, RParen, RParen>>,
              <<GroupOf(<<(<<LitA, GroupB>>)>>)>>)
    /\ Parsed(<<LParen, LowerA, RParen, LParen, LowerB, RParen>>, <<GroupA, GroupB>>)
    /\ Parsed(<<LParen, LParen, LowerA, RParen, Pipe, LowerB, RParen, LowerA>>,
              <<GroupOf(<<(<<GroupA>>), (<<LitB>>)>>), LitA>>)
    /\ Parsed(<<LParen, LowerA, Pipe, LParen, LowerB, RParen, RParen>>,
              <<GroupOf(<<(<<LitA>>), (<<GroupB>>)>>)>>)
    /\ Parsed(<<LParen, LBracket, RParen, RBracket, RParen, LowerA>>,
              <<GroupOf(<<(<<PositiveSetToken(<<RParen>>)>>)>>), LitA>>)

C31_GroupEndsAtItsClose ==
    /\ [][GroupFrame]_vars
    /\ []GroupsNest

\* "((a)b)a" parsed: the parent went on after the outer ")".
C31_Witness ==
    /\ pattern = <<LParen, LParen, LowerA, RParen, LowerB, RParen, LowerA>>
    /\ pc = "parse"
    /\ p.pos = 6
    /\ p.tokens = <<GroupOf(<<(<<GroupA, LitB>>)>>)>>

(***************************************************************************)
(* C32.  A probe returns true only when it has reached a state with the    *)
(* terminal flag; input used up in a state without it is a failure, so a   *)
(* pattern that needs more characters than remain does not match:          *)
(* Match("a", "ab") and Match("1 apple", "\d\d\d apple") are false.  In    *)
(* the earlier version of the package as in the later one.                 *)
(***************************************************************************)
\* The step in which a call of checkMatch returns true.
ProbeReturnsTrue == pc = "checkMatch" /\ pc' = "done" /\ result'.matched

ProbeTrueOnlyAtTerminal == ProbeReturnsTrue => TopState.isFinal

Matched == pc = "done" /\ result.matched

ShortInputNeverMatches ==
    /\ (pattern = <<LowerA, LowerB>> /\ line = <<LowerA>>) => ~Matched
    /\ (pattern = ThreeDigitsApple /\ line = OneApple) => ~Matched
    /\ (pattern # <<>> /\ AllLiteral(pattern) /\ Len(pattern) > Len(line)) => ~Matched

C32_TrueOnlyAtTerminalState ==
    /\ [][ProbeTrueOnlyAtTerminal]_vars
    /\ []ShortInputNeverMatches

\* In the later version: checked under Spec.
LaterProbeTrueOnlyAtTerminal == [][ProbeTrueOnlyAtTerminal]_vars
LaterShortInputNeverMatches ==
    /\ ShortInputNeverMatches
    /\ (pattern = ThreeDigitsApple /\ line = HundredApple /\ Terminal) => Returned(TRUE)

\* The earlier version has answered true to Match("a", "ab").
EarlyMatchesOnUsedUpInput ==
    /\ pattern = <<LowerA, LowerB>> /\ line = <<LowerA>>
    /\ invoked.matches = 1
    /\ Matched

(***************************************************************************)
(* C33.  checkMatch explores depth-first in a fixed order: in a state that *)
(* is not terminal, first the one consuming transition for the next input  *)
(* character (its character edge; the any-character edge only when the     *)
(* state has no character edge for it; the control edge for a sentinel),   *)
(* then the epsilon successors in the order they were registered; true at  *)
(* the first path that succeeds, false only when every alternative has     *)
(* failed.                                                                 *)
(***************************************************************************)
\* The state the consuming transition leads to from st on rune r, 0 for none.
Transition(st, r) ==
    IF IsPrint(r)
    THEN IF r \in DOMAIN st.edges THEN st.edges[r] ELSE st.anyChar
    ELSE IF r \in DOMAIN st.control THEN st.control[r] ELSE 0

\* The stack after the innermost call has called checkMatch(target, pos) and
\* will go on with alternative k.
Descended(target, pos, k) ==
    \/ pc' = "overflow"
    \/ /\ pc' = "checkMatch"
       /\ Len(stack') = Len(stack) + 1
       /\ \A i \in 1..(Len(stack) - 1) : stack'[i] = stack[i]
       /\ stack'[Len(stack)] = [st |-> Top.st, pos |-> Top.pos, k |-> k]
       /\ stack'[Len(stack) + 1] = [st |-> target, pos |-> pos, k |-> 0]

\* What a step of checkMatch may be, by the innermost call.
DepthFirstStep ==
    (pc = "checkMatch" /\ stack' # stack) =>
        IF TopState.isFinal
        THEN pc' = "done" /\ result' = [matched |-> TRUE, err |-> NoErr]
        ELSE IF Top.k = 0
        THEN LET d == DecodeRune(src, Top.pos)
                 t == Transition(TopState, d.r)
             IN  IF t # 0 THEN Descended(t, Top.pos + d.w, 1)
                 ELSE stack' = [stack EXCEPT ![Len(stack)].k = 1]
        ELSE IF Top.k <= Len(TopState.epsilon)
        THEN Descended(TopState.epsilon[Top.k], Top.pos, Top.k + 1)
        ELSE /\ stack' = SubSeq(stack, 1, Len(stack) - 1)
             /\ pc' = IF Len(stack) = 1 THEN "loop" ELSE "checkMatch"
             /\ result' = result

\* The alternatives the innermost call is through with have all failed: the
\* consuming transition once k >= 1, the first k - 1 epsilon successors.
Fails(st, pos) == CheckMatchResult(nfa, src, st, pos, {}) = "false"

TriedAlternativesFailed ==
    (pc = "checkMatch" /\ ~TopState.isFinal /\ Top.k >= 1) =>
        LET d == DecodeRune(src, Top.pos)
            t == Transition(TopState, d.r)
        IN  /\ t # 0 => Fails(t, Top.pos + d.w)
            /\ \A j \in 1..(Top.k - 1) :
                  j <= Len(TopState.epsilon) => Fails(TopState.epsilon[j], Top.pos)

C33_DepthFirstInFixedOrder ==
    /\ [][DepthFirstStep]_vars
    /\ []TriedAlternativesFailed

\* A state with two epsilon successors, inside a probe: the consuming
\* transition and the first successor have failed, the second one is next.
C33_Witness ==
    /\ pc = "checkMatch"
    /\ ~TopState.isFinal
    /\ Len(TopState.epsilon) = 2
    /\ Top.k = 2
    /\ Len(stack) >= 2

====
